---- MODULE Spec2Model ----
(***************************************************************************)
(* A model of the mcp-on-demand proxy: the child lifecycle manager         *)
(* (child-manager.ts), the schema cache and its routing table              *)
(* (schema-cache.ts) and the tools/list handler of the proxy server.       *)
(*                                                                         *)
(* JavaScript runs one macrotask at a time; an async function runs until   *)
(* its next await.  Every action below is one such uninterrupted run: the  *)
(* synchronous part of a call, or the continuation after an awaited event  *)
(* (handshake done, timer fired, close() resolved, child exited).  The     *)
(* continuations of the callers awaiting a promise run in microtasks right *)
(* after the promise settles, before any timer or I/O event, so they are   *)
(* part of the settling action.                                            *)
(***************************************************************************)
EXTENDS Integers, Sequences, FiniteSets, TLC

VARIABLES
    config,         \* per server: ServerConfig (persistent, idleTimeout)
    servers,        \* ChildManager.servers: name -> ManagedServer
    children,       \* per server and start attempt: the child process and its transport
    callers,        \* in-flight getClient / callTool invocations
    pendingStops,   \* per server: who called the stopServer runs suspended in
                    \* `await client.close()` ("explicit", "idle")
    shutdownStops,  \* servers whose stopServer promise shutdownAll() still awaits
    shutdownCalled, \* shutdownAll() has been called
    lastDone,       \* per server: ticks since the last callTool resolved
    cache,          \* SchemaCache.cache
    toolRouting,    \* SchemaCache.toolRouting
    cacheFile,      \* the contents of schemas.json on disk
    prefixTools,    \* settings.prefixTools
    mode,           \* settings.mode: "passthrough" or "tool-search"
    listed,         \* the last tools/list result handed to the host
    preload,        \* settings.preload: 'none', 'all' or a list of server names
    connected,      \* ProxyServer.start() has connected the host transport
    hostReq,        \* the arguments of the request or operation being handled
    hostRes         \* the result last returned to the host

mgrVars == <<config, servers, children, callers, pendingStops, shutdownStops,
             shutdownCalled, lastDone>>
cacheVars == <<cache, toolRouting, cacheFile, prefixTools, mode, listed>>
hostVars == <<preload, connected, hostReq, hostRes>>
vars == <<config, servers, children, callers, pendingStops, shutdownStops,
          shutdownCalled, lastDone, cache, toolRouting, cacheFile,
          prefixTools, mode, listed, preload, connected, hostReq, hostRes>>

(***************************************************************************)
(* Bounds of the model.                                                    *)
(***************************************************************************)
MaxCallers == 2         \* getClient / callTool invocations in a run
IdleTicks == 2          \* the global idle timeout, in clock ticks

\* every start attempt is made by a getClient call of its own
MaxAttempts == MaxCallers
MaxTools == 1           \* tools a server declares
MaxNameLen == 2         \* characters of a server or tool name put to the name functions
\* a per-server idleTimeout override, in clock ticks
ShortIdleTicks == IdleTicks - 1

(***************************************************************************)
(* Names are sequences of characters.                                      *)
(***************************************************************************)
SrvA == <<"a">>
SrvB == <<"b">>
AllServers == {SrvA, SrvB}
\* the servers the ChildManager was constructed with
Servers == DOMAIN config
Attempts == 1..MaxAttempts
Callers == 1..MaxCallers

\* ServerConfig: `persistent` and the optional `idleTimeout` (hasIdle: it is set).
CfgDefault == [persistent |-> FALSE, hasIdle |-> FALSE, idleTimeout |-> 0]
CfgPersistent == [persistent |-> TRUE, hasIdle |-> FALSE, idleTimeout |-> 0]
CfgShort == [persistent |-> FALSE, hasIdle |-> TRUE, idleTimeout |-> ShortIdleTicks]
\* serverConfigs with one server
OneServerConfigs == {[s \in {SrvA} |-> c] : c \in {CfgDefault, CfgPersistent, CfgShort}}

\* A timer handle: null, armed with `left` ticks to go, or fired (the handle is
\* still stored, and truthy, after the callback ran).
NoTimer == [st |-> "null", left |-> 0]
FiredTimer == [st |-> "fired", left |-> 0]
ArmedTimer(n) == [st |-> "armed", left |-> n]

\* The ManagedServer the constructor creates.  `uncancelled` counts the idle
\* timers set for the server that are still pending although idleTimer no
\* longer refers to them.
NewServer ==
    [status |-> "stopped", client |-> 0, transport |-> 0,
     idleTimer |-> NoTimer, startPromise |-> 0, uncancelled |-> 0]

\* A start attempt that has not been made.
NoChild == [proc |-> "none", race |-> "none", onclose |-> "none"]
\* A child as spawned by client.connect(transport).
NewChild == [proc |-> "alive", race |-> "pending", onclose |-> "none"]
\* A child that has exited; `onclose` keeps what its close handler did.
DeadChild(h) == [proc |-> "dead", race |-> "over", onclose |-> h]

IdleCaller ==
    [pc |-> "idle", srv |-> SrvA, kind |-> "none", att |-> 0, res |-> "none"]

NeverDone == [done |-> FALSE, age |-> 0]

(***************************************************************************)
(* ChildManager helpers.                                                   *)
(***************************************************************************)
\* (server.config.idleTimeout ?? this.defaultIdleTimeout)
EffectiveIdleTimeout(cfg) == IF cfg.hasIdle THEN cfg.idleTimeout ELSE IdleTicks

\* Two faulty variants of resetIdleTimer, against which the timer properties
\* are tested: one never arms the timer, one arms it for persistent servers too.
ResetIdleTimerNever(cfg, srv) == srv
ResetIdleTimerAlways(cfg, srv) ==
    [srv EXCEPT !.idleTimer = ArmedTimer(EffectiveIdleTimeout(cfg))]

\* A faulty variant of resetIdleTimer: the timer armed before is not cleared.
ResetIdleTimerNoClear(cfg, srv) ==
    IF cfg.persistent THEN srv
    ELSE [srv EXCEPT !.idleTimer = ArmedTimer(EffectiveIdleTimeout(cfg)),
                     !.uncancelled = IF srv.idleTimer.st = "armed" THEN @ + 1 ELSE @]

\* resetIdleTimer(server): clearTimeout of the handle, then a new timer
ResetIdleTimer(cfg, srv) ==
    IF cfg.persistent THEN srv
    ELSE [srv EXCEPT !.idleTimer = ArmedTimer(EffectiveIdleTimeout(cfg))]

\* cleanupServer(server)
CleanupServer(srv) ==
    [srv EXCEPT !.idleTimer = NoTimer, !.client = 0, !.transport = 0,
                !.status = "stopped", !.startPromise = 0]

\* getClient: the server is ready, hand out its client
IsReady(srv) == srv.status = "running" /\ srv.client # 0

\* A faulty variant of the test of line 59: a start in flight is never joined.
IsStartingNever(srv) == FALSE

\* getClient: a start is in flight, hand out its promise
IsStarting(srv) == srv.status = "starting" /\ srv.startPromise # 0

\* A faulty variant of the start: the status is not set to starting.
BeginStartNoStatus(srv, k) == [srv EXCEPT !.startPromise = k]

\* startServer up to its await, and getClient's store of the promise
BeginStart(srv, k) == [srv EXCEPT !.status = "starting", !.startPromise = k]

\* startServer after client.connect won the race
FinishStart(cfg, srv, k) ==
    ResetIdleTimer(cfg, [srv EXCEPT !.client = k, !.transport = k,
                                    !.status = "running", !.startPromise = 0])

\* A faulty variant of the catch block: the status is left as it was.
FailStartKeepsStatus(srv) == [srv EXCEPT !.startPromise = 0]

\* startServer's catch block
FailStart(srv) == [srv EXCEPT !.status = "error", !.startPromise = 0]

\* the attempts of server s made so far, and the next one
Made(s) == {k \in Attempts : children[s][k].race # "none"}
NextAttempt(s) == Cardinality(Made(s)) + 1

\* callers suspended on the start promise of attempt k of server s
Waiters(s, k) ==
    {c \in Callers : callers[c].pc = "awaitStart" /\ callers[c].srv = s
                     /\ callers[c].att = k}

\* callTool invocations of server s awaiting the upstream answer
Inflight(s) == {c \in Callers : callers[c].pc = "inflight" /\ callers[c].srv = s}

(***************************************************************************)
(* getClient / callTool: the synchronous part of a call by caller c.       *)
(***************************************************************************)
\* what a caller holds once getClient resolved with client k
GotClient(s, kind, k) ==
    IF kind = "callTool"
    THEN [pc |-> "inflight", srv |-> s, kind |-> kind, att |-> k, res |-> "none"]
    ELSE [IdleCaller EXCEPT !.pc = "done", !.res = "client"]

\* A faulty variant of the rejection: the caller is never resumed.
GotErrorLost(cl, e) == cl

\* what a caller holds once its start promise rejected with error e
GotError(cl, e) == [IdleCaller EXCEPT !.pc = "done", !.res = e]

\* getClient(s), or callTool(s, ...) through its getClient, by caller c: what
\* it does to the manager
GetClient(c, s, kind) ==
    /\ callers[c].pc = "idle"
    /\ \A d \in Callers : d < c => callers[d].pc # "idle"
    /\ LET srv == servers[s]
           k == NextAttempt(s)
       IN  IF IsReady(srv)
           THEN /\ servers' = [servers EXCEPT ![s] = ResetIdleTimer(config[s], srv)]
                /\ callers' = [callers EXCEPT ![c] =
                                  GotClient(s, kind, srv.client)]
                /\ UNCHANGED children
           ELSE IF IsStarting(srv)
           THEN /\ callers' = [callers EXCEPT ![c] =
                                  [pc |-> "awaitStart", srv |-> s, kind |-> kind,
                                   att |-> srv.startPromise, res |-> "none"]]
                /\ UNCHANGED <<servers, children>>
           ELSE /\ k <= MaxAttempts
                /\ servers' = [servers EXCEPT ![s] = BeginStart(srv, k)]
                /\ children' = [children EXCEPT ![s][k] = NewChild]
                /\ callers' = [callers EXCEPT ![c] =
                                  [pc |-> "awaitStart", srv |-> s, kind |-> kind,
                                   att |-> k, res |-> "none"]]
    /\ UNCHANGED <<config, pendingStops, shutdownStops, shutdownCalled, lastDone>>

\* a getClient or callTool made of the manager directly
Call(c, s, kind) ==
    /\ GetClient(c, s, kind)
    /\ UNCHANGED <<cacheVars, hostVars>>

(***************************************************************************)
(* startServer: the three ways its Promise.race ends.                      *)
(***************************************************************************)
\* client.connect resolved first: lines 94-112, then the waiters' continuations
\* (callTool: lastActivity, resetIdleTimer, client.callTool sent).
HandshakeOk(s, k) ==
    /\ children[s][k].race = "pending"
    /\ children[s][k].proc = "alive"
    /\ LET started == FinishStart(config[s], servers[s], k)
           calls == {c \in Waiters(s, k) : callers[c].kind = "callTool"}
       IN  servers' = [servers EXCEPT ![s] =
                          IF calls # {} THEN ResetIdleTimer(config[s], started)
                          ELSE started]
    /\ children' = [children EXCEPT ![s][k].race = "won"]
    /\ callers' = [c \in Callers |->
                      IF c \in Waiters(s, k)
                      THEN GotClient(s, callers[c].kind, k)
                      ELSE callers[c]]
    /\ UNCHANGED <<config, pendingStops, shutdownStops, shutdownCalled, lastDone>>
    /\ UNCHANGED <<cacheVars, hostVars>>

\* the startup timer rejected first: the catch block.  Nothing closes the
\* transport created at line 73, so the child stays as it is.
StartupTimeout(s, k) ==
    /\ children[s][k].race = "pending"
    /\ servers' = [servers EXCEPT ![s] = FailStart(servers[s])]
    /\ children' = [children EXCEPT ![s][k].race = "timeout"]
    /\ callers' = [c \in Callers |->
                      IF c \in Waiters(s, k) THEN GotError(callers[c], "timeout")
                      ELSE callers[c]]
    /\ UNCHANGED <<config, pendingStops, shutdownStops, shutdownCalled, lastDone>>
    /\ UNCHANGED <<cacheVars, hostVars>>

\* client.connect rejected first (spawn error, child exit or initialize error;
\* the SDK closes the transport): the catch block.
HandshakeFail(s, k) ==
    /\ children[s][k].race = "pending"
    /\ servers' = [servers EXCEPT ![s] = FailStart(servers[s])]
    /\ children' = [children EXCEPT ![s][k] = DeadChild("none")]
    /\ callers' = [c \in Callers |->
                      IF c \in Waiters(s, k) THEN GotError(callers[c], "failed")
                      ELSE callers[c]]
    /\ UNCHANGED <<config, pendingStops, shutdownStops, shutdownCalled, lastDone>>
    /\ UNCHANGED <<cacheVars, hostVars>>

(***************************************************************************)
(* The child of attempt k exits (by itself, or after close()): its         *)
(* transport closes.  After a won race the handler of line 105 runs.       *)
(***************************************************************************)
\* transport.onclose of lines 105-110
OnClose(srv) == IF srv.status = "running" THEN CleanupServer(srv) ELSE srv

ChildExit(s, k) ==
    /\ children[s][k].proc \in {"alive", "closing"}
    /\ children[s][k].race \in {"won", "timeout"}
    /\ IF children[s][k].race = "won"
       THEN /\ servers' = [servers EXCEPT ![s] = OnClose(servers[s])]
            /\ children' = [children EXCEPT ![s][k] =
                  DeadChild(IF servers[s].status = "running"
                            THEN "cleanup" ELSE "ignored")]
       ELSE /\ children' = [children EXCEPT ![s][k] = DeadChild("none")]
            /\ UNCHANGED servers
    /\ UNCHANGED <<config, callers, pendingStops, shutdownStops, shutdownCalled,
                   lastDone>>
    /\ UNCHANGED <<cacheVars, hostVars>>

(***************************************************************************)
(* stopServer.  With a client it suspends in `await client.close()`;       *)
(* without one it runs cleanupServer at once.                              *)
(***************************************************************************)
StopAwaits(srv) == srv.status # "stopped" /\ srv.client # 0
StopSync(srv) == srv.status # "stopped" /\ srv.client = 0

\* the servers after the synchronous part of stopServer on each server of S
ServersAfterStop(base, S) ==
    [s \in Servers |->
        IF s \in S /\ StopSync(base[s]) THEN CleanupServer(base[s]) ELSE base[s]]

\* client.close()
Close(child) == IF child.proc = "alive" THEN [child EXCEPT !.proc = "closing"] ELSE child

\* client.close() asked of the client of each server of S
ChildrenAfterStop(base, S) ==
    [s \in Servers |->
        IF s \in S /\ StopAwaits(base[s])
        THEN [children[s] EXCEPT ![base[s].client] = Close(@)]
        ELSE children[s]]

\* an explicit stopServer(s)
StopServer(s) ==
    /\ servers[s].status # "stopped"
    /\ "explicit" \notin pendingStops[s]
    /\ servers' = ServersAfterStop(servers, {s})
    /\ children' = ChildrenAfterStop(servers, {s})
    /\ pendingStops' = [pendingStops EXCEPT ![s] =
                           IF StopAwaits(servers[s]) THEN @ \cup {"explicit"} ELSE @]
    /\ UNCHANGED <<config, callers, shutdownStops, shutdownCalled, lastDone>>
    /\ UNCHANGED <<cacheVars, hostVars>>

\* client.close() resolved (or threw): cleanupServer
StopFinish(s, who) ==
    /\ who \in pendingStops[s]
    /\ servers' = [servers EXCEPT ![s] = CleanupServer(servers[s])]
    /\ pendingStops' = [pendingStops EXCEPT ![s] = @ \ {who}]
    /\ UNCHANGED <<config, children, callers, shutdownStops, shutdownCalled,
                   lastDone>>
    /\ UNCHANGED <<cacheVars, hostVars>>

(***************************************************************************)
(* The idle timer.                                                         *)
(***************************************************************************)
\* the handle once its callback has run
Fire(srv) == [srv EXCEPT !.idleTimer = FiredTimer]

\* the timer callback of line 185: stopServer(server.name)
IdleFire(s) ==
    /\ servers[s].idleTimer.st = "armed"
    /\ servers[s].idleTimer.left = 0
    /\ LET fired == [servers EXCEPT ![s] = Fire(servers[s])]
       IN  /\ servers' = ServersAfterStop(fired, {s})
           /\ children' = ChildrenAfterStop(fired, {s})
           /\ pendingStops' = [pendingStops EXCEPT ![s] =
                                  IF StopAwaits(fired[s]) THEN @ \cup {"idle"} ELSE @]
    /\ UNCHANGED <<config, callers, shutdownStops, shutdownCalled, lastDone>>
    /\ UNCHANGED <<cacheVars, hostVars>>

\* one tick of the clock
Tick ==
    /\ \/ \E s \in Servers :
             servers[s].idleTimer.st = "armed" /\ servers[s].idleTimer.left > 0
       \/ \E s \in Servers :
             lastDone[s].done /\ lastDone[s].age < EffectiveIdleTimeout(config[s])
    /\ servers' = [s \in Servers |->
                      IF servers[s].idleTimer.st = "armed"
                         /\ servers[s].idleTimer.left > 0
                      THEN [servers[s] EXCEPT !.idleTimer.left = @ - 1]
                      ELSE servers[s]]
    /\ lastDone' = [s \in Servers |->
                       IF lastDone[s].done
                          /\ lastDone[s].age < EffectiveIdleTimeout(config[s])
                       THEN [lastDone[s] EXCEPT !.age = @ + 1]
                       ELSE lastDone[s]]
    /\ UNCHANGED <<config, children, callers, pendingStops, shutdownStops,
                   shutdownCalled>>
    /\ UNCHANGED <<cacheVars, hostVars>>

(***************************************************************************)
(* callTool: the upstream answers, or the call fails.                      *)
(***************************************************************************)
CallReturn(c) ==
    /\ callers[c].pc = "inflight"
    /\ children[callers[c].srv][callers[c].att].proc = "alive"
    /\ callers' = [callers EXCEPT ![c] = [IdleCaller EXCEPT !.pc = "done", !.res = "ok"]]
    /\ lastDone' = [lastDone EXCEPT ![callers[c].srv] = [done |-> TRUE, age |-> 0]]
    /\ UNCHANGED <<config, servers, children, pendingStops, shutdownStops,
                   shutdownCalled>>
    /\ UNCHANGED <<cacheVars, hostVars>>

\* an upstream error, a closed connection or the request timeout
CallFail(c) ==
    /\ callers[c].pc = "inflight"
    /\ callers' = [callers EXCEPT ![c] =
                       [IdleCaller EXCEPT !.pc = "done", !.res = "callError"]]
    /\ UNCHANGED <<config, servers, children, pendingStops, shutdownStops,
                   shutdownCalled, lastDone>>
    /\ UNCHANGED <<cacheVars, hostVars>>

(***************************************************************************)
(* shutdownAll: stopServer on every server, then await all of them.        *)
(***************************************************************************)
ShutdownAll ==
    /\ ~shutdownCalled
    /\ servers' = ServersAfterStop(servers, Servers)
    /\ children' = ChildrenAfterStop(servers, Servers)
    /\ shutdownStops' = {s \in Servers : StopAwaits(servers[s])}
    /\ shutdownCalled' = TRUE
    /\ UNCHANGED <<config, callers, pendingStops, lastDone>>
    /\ UNCHANGED <<cacheVars, hostVars>>

\* one of shutdownAll's stopServer calls resumes after client.close()
ShutdownStopFinish(s) ==
    /\ s \in shutdownStops
    /\ servers' = [servers EXCEPT ![s] = CleanupServer(servers[s])]
    /\ shutdownStops' = shutdownStops \ {s}
    /\ UNCHANGED <<config, children, callers, pendingStops, shutdownCalled,
                   lastDone>>
    /\ UNCHANGED <<cacheVars, hostVars>>

\* Promise.allSettled has resolved: it does in the microtasks that follow the
\* last stopServer promise settling
ShutdownResolved == shutdownCalled /\ shutdownStops = {}

(***************************************************************************)
(* SchemaCache.  `cache` is null (loaded = FALSE) or the parsed document;  *)
(* its `servers` object is the sequence of its entries in property         *)
(* (insertion) order, and hasServers = FALSE is a document without a       *)
(* `servers` object.  toolRouting is a Map: a function on the routed names.*)
(***************************************************************************)
ToolT == <<"t">>
ToolU == <<"u">>
ToolNames == {ToolT, ToolU}
CacheServers == AllServers

\* the tool lists a server can declare
RECURSIVE SeqsUpTo(_, _)
SeqsUpTo(S, n) ==
    IF n = 0 THEN {<<>>}
    ELSE LET shorter == SeqsUpTo(S, n - 1)
         IN  shorter \cup {Append(q, x) : q \in shorter, x \in S}
ToolLists == SeqsUpTo(ToolNames, MaxTools)

NoCache == [loaded |-> FALSE, hasServers |-> FALSE, servers |-> <<>>]
\* { version: 1, generatedAt, servers: {} }
EmptyCache == [loaded |-> TRUE, hasServers |-> TRUE, servers |-> <<>>]
\* a parsed document that has no `servers`
BadCache == [loaded |-> TRUE, hasServers |-> FALSE, servers |-> <<>>]

Entry(name, tools) == [serverName |-> name, tools |-> tools]

\* schemas.json: absent, unparseable, or a JSON document
NoFile == [kind |-> "absent", doc |-> NoCache]
CorruptFile == [kind |-> "corrupt", doc |-> NoCache]
JsonFile(doc) == [kind |-> "json", doc |-> doc]

EmptyMap == <<>>
MapSet(m, k, v) == [x \in DOMAIN m \cup {k} |-> IF x = k THEN v ELSE m[x]]

\* A faulty variant of the inner loop: a later server takes a routed name over.
RECURSIVE RouteToolsLastWins(_, _, _, _)
RouteToolsLastWins(routing, name, tools, i) ==
    IF i > Len(tools) THEN routing
    ELSE RouteToolsLastWins(MapSet(routing, tools[i], name), name, tools, i + 1)

\* the inner loop of rebuildRouting: the tools of one server, from the i-th on
RECURSIVE RouteTools(_, _, _, _)
RouteTools(routing, name, tools, i) ==
    IF i > Len(tools) THEN routing
    ELSE IF tools[i] \in DOMAIN routing
         THEN RouteTools(routing, name, tools, i + 1)
         ELSE RouteTools(MapSet(routing, tools[i], name), name, tools, i + 1)

\* the outer loop of rebuildRouting: the entries from the j-th on
RECURSIVE RouteServers(_, _, _)
RouteServers(routing, entries, j) ==
    IF j > Len(entries) THEN routing
    ELSE RouteServers(RouteTools(routing, entries[j].serverName, entries[j].tools, 1),
                      entries, j + 1)

\* A faulty variant of rebuildRouting: the table is not cleared first.
RebuildRoutingNoClear(old, cch) ==
    IF ~cch.loaded \/ ~cch.hasServers THEN old
    ELSE RouteServers(old, cch.servers, 1)

\* rebuildRouting(): the routing table it leaves, given the one it found.
\* Without `servers`, Object.entries throws after the table was cleared.
RebuildRouting(old, cch) ==
    IF ~cch.loaded \/ ~cch.hasServers THEN EmptyMap
    ELSE RouteServers(EmptyMap, cch.servers, 1)

\* A faulty variant of the assignment: the property is deleted and added anew,
\* so that an existing entry moves to the end.
SetEntryMovesLast(entries, name, tools) ==
    Append(SelectSeq(entries, LAMBDA e : e.serverName # name), Entry(name, tools))

\* cache.servers[serverName] = entry: an existing property keeps its place,
\* a new one goes last
SetEntry(entries, name, tools) ==
    IF \E j \in 1..Len(entries) : entries[j].serverName = name
    THEN [j \in 1..Len(entries) |->
             IF entries[j].serverName = name THEN Entry(name, tools) ELSE entries[j]]
    ELSE Append(entries, Entry(name, tools))

\* updateServer(serverName, tools)
UpdateServer(name, tools) ==
    /\ cache.loaded => cache.hasServers     \* else the assignment throws
    /\ LET base == IF cache.loaded THEN cache ELSE EmptyCache
           new == [base EXCEPT !.servers = SetEntry(base.servers, name, tools)]
       IN  /\ cache' = new
           /\ toolRouting' = RebuildRouting(toolRouting, new)
    /\ UNCHANGED <<cacheFile, prefixTools, mode, listed>>
    /\ UNCHANGED <<mgrVars, hostVars>>

\* load()
Load ==
    /\ IF cacheFile.kind = "json"
       THEN /\ cache' = cacheFile.doc
            /\ toolRouting' = RebuildRouting(toolRouting, cacheFile.doc)
       ELSE UNCHANGED <<cache, toolRouting>>
    /\ UNCHANGED <<cacheFile, prefixTools, mode, listed>>
    /\ UNCHANGED <<mgrVars, hostVars>>

\* `${serverName}__${tool.name}`
Prefixed(name, tool) == name \o <<"_", "_">> \o tool

\* the tools of one entry as getAllTools names them
EntryTools(e, prefix) ==
    [i \in 1..Len(e.tools) |-> IF prefix THEN Prefixed(e.serverName, e.tools[i])
                               ELSE e.tools[i]]

RECURSIVE Flatten(_, _, _)
Flatten(entries, prefix, j) ==
    IF j > Len(entries) THEN <<>>
    ELSE EntryTools(entries[j], prefix) \o Flatten(entries, prefix, j + 1)

\* getAllTools(prefixWithServer): the names of the schemas it returns
GetAllTools(cch, prefix) ==
    IF ~cch.loaded THEN <<>> ELSE Flatten(cch.servers, prefix, 1)

SearchToolsName == <<"s", "e", "a", "r", "c", "h", "_", "t", "o", "o", "l", "s">>
UseToolName == <<"u", "s", "e", "_", "t", "o", "o", "l">>
\* getMetaTools(): the names of the two descriptors
GetMetaTools == <<SearchToolsName, UseToolName>>

\* the tools/list handler: the names of the tools it answers with
ListToolsResult ==
    IF mode = "tool-search" THEN GetMetaTools
    ELSE GetAllTools(cache, prefixTools)

ListTools ==
    /\ mode = "passthrough" /\ cache.loaded => cache.hasServers  \* else it throws
    /\ listed' = ListToolsResult
    /\ UNCHANGED <<cache, toolRouting, cacheFile, prefixTools, mode>>
    /\ UNCHANGED <<mgrVars, hostVars>>

\* getServerForTool(toolName): <<>> stands for undefined
GetServerForTool(toolName) ==
    IF toolName \in DOMAIN toolRouting THEN toolRouting[toolName] ELSE <<>>

\* toolName.indexOf('__'), counted from 1; 0 when there is none
RECURSIVE IndexOfSep(_, _)
IndexOfSep(q, i) ==
    IF i + 1 > Len(q) THEN 0
    ELSE IF q[i] = "_" /\ q[i + 1] = "_" THEN i
    ELSE IndexOfSep(q, i + 1)

\* getOriginalToolName(toolName, prefixWithServer)
GetOriginalToolName(toolName, prefixWithServer) ==
    IF ~prefixWithServer THEN toolName
    ELSE LET idx == IndexOfSep(toolName, 1)
         IN  IF idx >= 1 THEN SubSeq(toolName, idx + 2, Len(toolName)) ELSE toolName

\* A faulty variant of the resolution: a name that is not routed is sent to
\* server a all the same.
ForwardUnchecked(toolName) ==
    [known |-> TRUE,
     server |-> IF GetServerForTool(toolName) # <<>> THEN GetServerForTool(toolName)
                ELSE SrvA,
     tool |-> GetOriginalToolName(toolName, prefixTools)]

\* callDirectTool up to its call of the child manager: is the name routed,
\* and the server and tool name childManager.callTool is called with
Forward(toolName) ==
    [known |-> GetServerForTool(toolName) # <<>>,
     server |-> GetServerForTool(toolName),
     tool |-> GetOriginalToolName(toolName, prefixTools)]

\* no request handled yet, no result returned yet
NoRequest == [op |-> "none"]
NoResult == [kind |-> "none"]

\* settings.preload
PreloadNone == [kind |-> "none", list |-> <<>>]
PreloadAll == [kind |-> "all", list |-> <<>>]

\* the proxy as constructed, with preload disabled
HostInit ==
    /\ preload = PreloadNone
    /\ connected = FALSE
    /\ hostReq = NoRequest
    /\ hostRes = NoResult

(***************************************************************************)
(* The child manager's specification.                                      *)
(***************************************************************************)
MgrInit(configs) ==
    /\ config \in configs
    /\ servers = [s \in Servers |-> NewServer]
    /\ children = [s \in Servers |-> [k \in Attempts |-> NoChild]]
    /\ callers = [c \in Callers |-> IdleCaller]
    /\ pendingStops = [s \in Servers |-> {}]
    /\ shutdownStops = {}
    /\ shutdownCalled = FALSE
    /\ lastDone = [s \in Servers |-> NeverDone]

Init ==
    /\ MgrInit(OneServerConfigs)
    /\ cache = NoCache
    /\ toolRouting = EmptyMap
    /\ cacheFile = NoFile
    /\ prefixTools = FALSE
    /\ mode = "passthrough"
    /\ listed = <<>>
    /\ HostInit

Next ==
    \/ \E c \in Callers, s \in Servers, kind \in {"getClient", "callTool"} :
          Call(c, s, kind)
    \/ \E s \in Servers, k \in Attempts : HandshakeOk(s, k)
    \/ \E s \in Servers, k \in Attempts : StartupTimeout(s, k)
    \/ \E s \in Servers, k \in Attempts : HandshakeFail(s, k)
    \/ \E s \in Servers, k \in Attempts : ChildExit(s, k)
    \/ \E s \in Servers : StopServer(s)
    \/ \E s \in Servers, who \in {"explicit", "idle"} : StopFinish(s, who)
    \/ \E s \in Servers : IdleFire(s)
    \/ Tick
    \/ \E c \in Callers : CallReturn(c)
    \/ \E c \in Callers : CallFail(c)
    \/ ShutdownAll
    \/ \E s \in Servers : ShutdownStopFinish(s)

Spec == Init /\ [][Next]_vars

(***************************************************************************)
(* The schema cache's specification: the manager is left as constructed.   *)
(***************************************************************************)
\* the documents schemas.json can hold when the proxy starts
FileDocs ==
    {BadCache, EmptyCache}
    \cup {[EmptyCache EXCEPT !.servers = <<Entry(SrvA, <<ToolT>>)>>],
          [EmptyCache EXCEPT !.servers =
              <<Entry(SrvB, <<ToolT, ToolU>>), Entry(SrvA, <<ToolT>>)>>]}

CacheInit ==
    /\ MgrInit({[s \in {SrvA} |-> CfgDefault]})
    /\ cache = NoCache
    /\ toolRouting = EmptyMap
    /\ cacheFile \in {NoFile, CorruptFile} \cup {JsonFile(d) : d \in FileDocs}
    /\ prefixTools \in BOOLEAN
    /\ mode \in {"passthrough", "tool-search"}
    /\ listed = <<>>
    /\ HostInit

CacheNext ==
    \/ Load
    \/ \E name \in CacheServers, tools \in ToolLists : UpdateServer(name, tools)
    \/ ListTools

CacheSpec == CacheInit /\ [][CacheNext]_vars

(***************************************************************************)
(* getOriginalToolName applied to the prefixed name of a server and a tool *)
(* whose names are drawn from the letters and underscores.                 *)
(***************************************************************************)
NameChars == {"a", "_"}
Names == SeqsUpTo(NameChars, MaxNameLen) \ {<<>>}

NameRequests ==
    {[op |-> "getOriginalToolName", server |-> s, tool |-> tl, prefix |-> b] :
        s \in Names, tl \in Names, b \in BOOLEAN}

\* the manager and the cache as constructed, nothing loaded
QuietInit ==
    /\ MgrInit({[s \in {SrvA} |-> CfgDefault]})
    /\ cache = NoCache
    /\ toolRouting = EmptyMap
    /\ cacheFile = NoFile
    /\ prefixTools = FALSE
    /\ mode = "passthrough"
    /\ listed = <<>>
    /\ preload = PreloadNone
    /\ connected = FALSE
    /\ hostRes = NoResult

NameInit == QuietInit /\ hostReq \in NameRequests

\* getOriginalToolName(`${server}__${tool}`, prefix)
OriginalName ==
    /\ hostReq.op = "getOriginalToolName"
    /\ hostRes = NoResult
    /\ hostRes' = [kind |-> "name",
                   name |-> GetOriginalToolName(Prefixed(hostReq.server, hostReq.tool),
                                                hostReq.prefix)]
    /\ UNCHANGED <<mgrVars, cacheVars, preload, connected, hostReq>>

NameNext == OriginalName

NameSpec == NameInit /\ [][NameNext]_vars

(***************************************************************************)
(* ProxyServer: start() with a cache file that loads, and the tools/call   *)
(* handler in passthrough mode.  The manager is the one of the proxy: its  *)
(* getClient and callTool are called by the handlers only, and stopServer  *)
(* by the idle timers and shutdownAll only.                                *)
(***************************************************************************)
\* Object.keys(this.config.servers)
ConfigOrder == SelectSeq(<<SrvA, SrvB>>, LAMBDA s : s \in Servers)

\* A faulty variant of preloadServers: the setting 'none' is not honoured.
ToPreloadAlways(setting, names) ==
    IF setting.kind \in {"none", "all"} THEN names
    ELSE SelectSeq(setting.list,
                   LAMBDA s : \E i \in 1..Len(names) : names[i] = s)

\* A faulty variant of preloadServers: an explicit list counts as 'all'.
ToPreloadListAsAll(setting, names) ==
    IF setting.kind = "none" THEN <<>> ELSE names

\* preloadServers: the servers it warms, in order
ToPreload(setting, names) ==
    IF setting.kind = "none" THEN <<>>
    ELSE IF setting.kind = "all" THEN names
    ELSE SelectSeq(setting.list,
                   LAMBDA s : \E i \in 1..Len(names) : names[i] = s)

\* start() with a cache file that loads: load(), the host transport is
\* connected, and preloadServers runs up to its first sleep, warming the
\* first server of `warm` if there is one (there is no schema generation)
StartUp(warm) ==
    /\ ~connected
    /\ cacheFile.kind = "json" /\ cacheFile.doc.hasServers
    /\ cache' = cacheFile.doc
    /\ toolRouting' = RebuildRouting(toolRouting, cacheFile.doc)
    /\ connected' = TRUE
    /\ IF warm = <<>> THEN UNCHANGED mgrVars
       ELSE \E c \in Callers : GetClient(c, warm[1], "getClient")
    /\ UNCHANGED <<cacheFile, prefixTools, mode, listed, preload, hostRes>>

\* start() where preloadServers has one server at most to warm
Start ==
    LET warm == ToPreload(preload, ConfigOrder)
    IN  /\ Len(warm) <= 1
        /\ StartUp(warm)
        /\ UNCHANGED hostReq

\* { content: [{ type: 'text', text }], isError: true }
ErrorResult(text) == [kind |-> "result", isError |-> TRUE, text |-> text]

\* what the host receives for a forwarded call, by what callTool settled with:
\* the upstream result, or the catch block's error result
HostResult(res) ==
    IF res = "ok" THEN [kind |-> "result", isError |-> FALSE, text |-> <<"upstream">>]
    ELSE ErrorResult(<<"Error: ", res>>)

\* callDirectTool(toolName) for request c, up to the first suspension of
\* childManager.callTool
CallDirectTool(c, toolName) ==
    LET f == Forward(toolName)
    IN  IF ~f.known
        THEN /\ hostRes' = ErrorResult(<<"Unknown tool: ">> \o toolName)
             /\ callers' = [callers EXCEPT ![c] = GotError(@, "unknownTool")]
             /\ UNCHANGED <<config, servers, children, pendingStops,
                            shutdownStops, shutdownCalled, lastDone>>
        ELSE IF f.server \notin Servers
        THEN \* getClient throws, callDirectTool catches
             /\ hostRes' = ErrorResult(<<"Error: Unknown server: ">> \o f.server)
             /\ callers' = [callers EXCEPT ![c] = GotError(@, "unknownServer")]
             /\ UNCHANGED <<config, servers, children, pendingStops,
                            shutdownStops, shutdownCalled, lastDone>>
        ELSE /\ GetClient(c, f.server, "callTool")
             /\ UNCHANGED hostRes

\* the tools/call handler for `name`, request c, in passthrough mode
ToolsCall(c, name) ==
    /\ connected
    /\ mode = "passthrough"
    /\ callers[c].pc = "idle"
    /\ \A d \in Callers : d < c => callers[d].pc # "idle"
    /\ CallDirectTool(c, name)
    /\ UNCHANGED <<cacheVars, preload, connected, hostReq>>

\* the names the host calls
CallNames == {ToolT, ToolU, Prefixed(SrvA, ToolT)}

\* the cache files the proxy starts with
ProxyDocs ==
    {[EmptyCache EXCEPT !.servers = <<Entry(SrvA, <<ToolT>>)>>],
     [EmptyCache EXCEPT !.servers =
         <<Entry(SrvA, <<ToolT>>), Entry(SrvB, <<ToolT, ToolU>>)>>]}

ProxyInit ==
    /\ MgrInit({[s \in {SrvA} |-> CfgDefault]})
    /\ cache = NoCache
    /\ toolRouting = EmptyMap
    /\ cacheFile \in {JsonFile(d) : d \in ProxyDocs}
    /\ prefixTools \in BOOLEAN
    /\ mode = "passthrough"
    /\ listed = <<>>
    /\ preload \in {PreloadNone, PreloadAll}
    /\ connected = FALSE
    /\ hostReq = NoRequest
    /\ hostRes = NoResult

ProxyNext ==
    \/ Start
    \/ \E c \in Callers, name \in CallNames : ToolsCall(c, name)
    \/ connected /\ ListTools
    \/ \E s \in Servers, k \in Attempts : HandshakeOk(s, k)
    \/ \E s \in Servers, k \in Attempts : StartupTimeout(s, k)
    \/ \E s \in Servers, k \in Attempts : HandshakeFail(s, k)
    \/ \E s \in Servers, k \in Attempts : ChildExit(s, k)
    \/ \E s \in Servers : StopFinish(s, "idle")
    \/ \E s \in Servers : IdleFire(s)
    \/ Tick
    \/ \E c \in Callers : CallReturn(c)
    \/ \E c \in Callers : CallFail(c)
    \/ ShutdownAll
    \/ \E s \in Servers : ShutdownStopFinish(s)

ProxySpec == ProxyInit /\ [][ProxyNext]_vars

(***************************************************************************)
(* The child manager under fair scheduling: the clock advances, a timer    *)
(* whose delay has elapsed runs its callback, and client.close() settles   *)
(* (the SDK bounds its wait for the child).                                *)
(***************************************************************************)
Fair ==
    /\ WF_vars(Tick)
    /\ \A s \in AllServers : WF_vars(s \in Servers /\ IdleFire(s))
    /\ \A s \in AllServers, who \in {"explicit", "idle"} :
          WF_vars(s \in Servers /\ StopFinish(s, who))
    /\ \A s \in AllServers : WF_vars(s \in Servers /\ ShutdownStopFinish(s))

LiveSpec == Init /\ [][Next]_vars /\ Fair

(***************************************************************************)
(* Properties of the child manager.                                        *)
(***************************************************************************)
\* the children of server s that are processes now
LiveChildren(s) == {k \in Attempts : children[s][k].proc \in {"alive", "closing"}}

\* C1: spawn coalescing.  A getClient/callTool issued while the server is
\* starting spawns nothing and awaits the start in flight; one issued while it
\* is stopped or in error spawns exactly one child; and when a start settles,
\* all the callers awaiting it get the same client, or all the same error.
C1_SpawnCoalescing ==
    [][\A s \in Servers :
          /\ servers[s].status = "starting" /\ servers[s].startPromise # 0
                => /\ Made(s)' = Made(s)
                   /\ \A c \in Callers :
                         /\ callers[c].pc = "idle"
                         /\ callers'[c].pc = "awaitStart"
                         /\ callers'[c].srv = s
                         => callers'[c].att = servers[s].startPromise
          /\ Cardinality(Made(s)') <= Cardinality(Made(s)) + 1
          /\ \A k \in Attempts :
                children[s][k].race = "pending" /\ children'[s][k].race # "pending"
                => \/ /\ servers'[s].client = k
                      /\ \A c \in Waiters(s, k) :
                            \/ callers'[c].pc = "inflight" /\ callers'[c].att = k
                            \/ callers'[c].pc = "done" /\ callers'[c].res = "client"
                   \/ \E e \in {"timeout", "failed"} :
                         \A c \in Waiters(s, k) :
                            callers'[c].pc = "done" /\ callers'[c].res = e
      ]_vars

\* C1, its case: every caller awaits the first start of a server, and that
\* start is the only child the server ever had.
C1_Witness ==
    \E s \in Servers :
        /\ Made(s) = {1}
        /\ children[s][1].race = "pending"
        /\ \A c \in Callers : callers[c].pc = "awaitStart" /\ callers[c].att = 1

\* C2: at most one child process exists for a server name, in every state.
C2_AtMostOneChild ==
    \A s \in Servers : Cardinality(LiveChildren(s)) <= 1

\* C3: when the startup timer wins the race of a start attempt, the server's
\* status becomes error (or stopped), and every caller awaiting that attempt is
\* rejected with the startup-timeout error.
C3_TimeoutFailsWaiters ==
    [][\A s \in Servers, k \in Attempts :
          children[s][k].race = "pending" /\ children'[s][k].race = "timeout"
          => /\ servers'[s].status \in {"error", "stopped"}
             /\ \A c \in Waiters(s, k) :
                   callers'[c].pc = "done" /\ callers'[c].res = "timeout"
      ]_vars

\* C3, its case: the only start of a server timed out, the server is in error
\* and every caller, all coalesced on that start, holds the timeout error.
C3_Witness ==
    \E s \in Servers :
        /\ Made(s) = {1}
        /\ children[s][1].race = "timeout"
        /\ servers[s].status = "error"
        /\ \A c \in Callers : callers[c].pc = "done" /\ callers[c].res = "timeout"

\* C4: a child whose start attempt failed by startup timeout is terminated:
\* while the server is in error, no such child is alive.
C4_TimedOutChildTerminated ==
    \A s \in Servers, k \in Attempts :
        servers[s].status = "error" /\ children[s][k].race = "timeout"
        => children[s][k].proc # "alive"

\* C5: the idle timer stops a server no earlier than its effective idle
\* timeout after the last callTool completed, and never while a callTool on
\* it is in flight.
C5_IdleReapLowerBound ==
    [][\A s \in Servers :
          IdleFire(s) /\ servers[s].status # "stopped"
          => /\ Inflight(s) = {}
             /\ lastDone[s].done
                   => lastDone[s].age >= EffectiveIdleTimeout(config[s])
      ]_vars

\* a server at rest: stopped, its client cleared, its idle timer cleared
StoppedClean(s) ==
    /\ servers[s].status = "stopped"
    /\ servers[s].client = 0
    /\ servers[s].idleTimer = NoTimer

\* C6: under fair timers, a running non-persistent server that gets no
\* further getClient/callTool (the calls of a run are finitely many) is
\* eventually stopped, with its client and its idle timer cleared.
C6_IdleReapLiveness ==
    \A s \in AllServers :
        (s \in Servers /\ ~config[s].persistent /\ servers[s].status = "running")
            ~> (s \in Servers /\ StoppedClean(s))

\* C6, its case: the idle timer of a running non-persistent server has
\* expired, and the stopServer it called is closing the server's client.
C6_Witness ==
    \E s \in Servers :
        /\ ~config[s].persistent
        /\ servers[s].status = "running"
        /\ servers[s].idleTimer = FiredTimer
        /\ pendingStops[s] = {"idle"}
        /\ children[s][servers[s].client].proc = "closing"

\* C7: a persistent server's idleTimer is null in every state, and no idle
\* timer callback ever runs for it, so an idle timeout never stops it.
C7_PersistentNeverReaped ==
    /\ [](\A s \in Servers : config[s].persistent => servers[s].idleTimer = NoTimer)
    /\ [][\A s \in Servers : config[s].persistent => ~IdleFire(s)]_vars

\* C7, its case: a persistent server is running and has been idle, since its
\* last callTool completed, for the whole idle timeout.
C7_Witness ==
    \E s \in Servers :
        /\ config[s].persistent
        /\ servers[s].status = "running"
        /\ Inflight(s) = {}
        /\ lastDone[s].done
        /\ lastDone[s].age >= EffectiveIdleTimeout(config[s])

\* C8: whenever a server's status is running, its client is non-null and is
\* connected to a live child over a channel nobody has closed.
C8_RunningHasLiveChannel ==
    \A s \in Servers :
        servers[s].status = "running"
        => /\ servers[s].client # 0
           /\ children[s][servers[s].client].proc = "alive"

(***************************************************************************)
(* Properties of the schema cache and of tools/list.                       *)
(***************************************************************************)
\* the entry of server `name` lists a tool called `tool`
Declares(name, tool) ==
    \E j \in 1..Len(cache.servers) :
        /\ cache.servers[j].serverName = name
        /\ \E i \in 1..Len(cache.servers[j].tools) : cache.servers[j].tools[i] = tool

\* C9: routing soundness.  After any loads and updateServer calls, every
\* routed tool name maps to one server, which is present in cache.servers and
\* whose cached tools contain a tool of that name; so no tool of a replaced
\* entry stays routed.
C9_RoutingSound ==
    \A t \in DOMAIN toolRouting :
        /\ cache.loaded /\ cache.hasServers
        /\ Declares(toolRouting[t], t)

\* C9, its case: the cache file was loaded with server b declaring t and u,
\* b's entry was then replaced by one without u, and the table routes t to
\* b, the first of the two servers declaring it, and u nowhere.
C9_Witness ==
    /\ cacheFile.kind = "json"
    /\ Len(cacheFile.doc.servers) = 2
    /\ cache.loaded
    /\ Len(cache.servers) = 2
    /\ cache.servers[1] = Entry(SrvB, <<ToolT>>)
    /\ cache.servers[2] = Entry(SrvA, <<ToolT>>)
    /\ DOMAIN toolRouting = {ToolT}
    /\ toolRouting[ToolT] = SrvB

\* C10: the tools/list result never holds two entries of the same name.
C10_ListedNamesDistinct ==
    \A i, j \in 1..Len(listed) : i # j => listed[i] # listed[j]

\* the servers of the cache that declare `tool`, by their place in cache.servers
Declarers(tool) ==
    {j \in 1..Len(cache.servers) :
        \E i \in 1..Len(cache.servers[j].tools) : cache.servers[j].tools[i] = tool}

\* the first server, in the insertion order of cache.servers, declaring `tool`
FirstDeclarer(tool) ==
    cache.servers[CHOOSE j \in Declarers(tool) : \A h \in Declarers(tool) : j <= h].serverName

\* the place of server `name` in cache.servers; 0 when it has no entry
Place(name) ==
    IF \E j \in 1..Len(cache.servers) : cache.servers[j].serverName = name
    THEN CHOOSE j \in 1..Len(cache.servers) : cache.servers[j].serverName = name
    ELSE 0

\* C11 as stated: a routed name resolves to the first server declaring it,
\* and an updateServer of any other server leaves that route as it is.
C11_RouteStableUnderAnyUpdate ==
    [][\A name \in CacheServers, tools \in ToolLists :
          UpdateServer(name, tools)
          => \A t \in DOMAIN toolRouting :
                toolRouting[t] # name
                => t \in DOMAIN toolRouting' /\ toolRouting'[t] = toolRouting[t]
      ]_vars

\* C11, amended: every tool name some cached server declares is routed to the
\* first server declaring it in the insertion order of cache.servers, and
\* without prefixing tools/call forwards it to that server under that name;
\* an updateServer of another server leaves the route as it is unless that
\* server comes earlier in the order and its new tools declare the name.
C11_FirstDeclarerWins ==
    /\ [](cache.loaded /\ cache.hasServers
            => \A t \in ToolNames :
                  IF Declarers(t) = {} THEN t \notin DOMAIN toolRouting
                  ELSE /\ GetServerForTool(t) = FirstDeclarer(t)
                       /\ ~prefixTools
                             => Forward(t) = [known |-> TRUE,
                                              server |-> FirstDeclarer(t),
                                              tool |-> t])
    /\ [][\A name \in CacheServers, tools \in ToolLists :
            UpdateServer(name, tools)
            => \A t \in DOMAIN toolRouting :
                  /\ toolRouting[t] # name
                  /\ ~(/\ Place(name) # 0
                       /\ Place(name) < Place(toolRouting[t])
                       /\ \E i \in 1..Len(tools) : tools[i] = t)
                  => t \in DOMAIN toolRouting' /\ toolRouting'[t] = toolRouting[t]
        ]_vars

\* C11, its case: without prefixing, servers a and b both declare t, a first,
\* and t is routed to a.
C11_Witness ==
    /\ ~prefixTools
    /\ cache.loaded
    /\ cache.servers = <<Entry(SrvA, <<ToolT>>), Entry(SrvB, <<ToolT>>)>>
    /\ Forward(ToolT).server = SrvA

(***************************************************************************)
(* Properties of the name functions.                                       *)
(***************************************************************************)
\* C12: prefix round trip.  For every server name S and tool name T,
\* getOriginalToolName(S + "__" + T, true) is T, also when S or T contain
\* underscores, and getOriginalToolName(x, false) is x.
C12_PrefixRoundTrip ==
    hostRes.kind = "name"
    => hostRes.name = IF hostReq.prefix THEN hostReq.tool
                      ELSE Prefixed(hostReq.server, hostReq.tool)

(***************************************************************************)
(* Properties of the tools/call and tools/list handlers.                   *)
(***************************************************************************)
\* the names tools/list answers with in passthrough mode
ListedNames == {GetAllTools(cache, prefixTools)[i] :
                   i \in 1..Len(GetAllTools(cache, prefixTools))}

\* C13: with prefixTools true, a tools/call for a name tools/list exposes,
\* "S__T" for server S declaring T, is accepted and forwarded to S with tool
\* name T.
C13_ListedNameIsCallable ==
    [][\A c \in Callers, name \in CallNames :
          ToolsCall(c, name) /\ prefixTools /\ name \in ListedNames
          => /\ callers'[c].res # "unknownTool"
             /\ Forward(name).known
             /\ name = Prefixed(Forward(name).server, Forward(name).tool)
             /\ Declares(Forward(name).server, Forward(name).tool)
      ]_vars

\* C14: a tools/call for a name absent from the routing table is answered
\* with a normal result whose isError is true and whose text names the tool,
\* and it leaves the manager as it was: no child spawned, no server record
\* and no idle timer touched.
C14_UnknownToolIsContained ==
    [][\A c \in Callers, name \in CallNames :
          ToolsCall(c, name) /\ name \notin DOMAIN toolRouting
          => /\ hostRes' = [kind |-> "result", isError |-> TRUE,
                            text |-> <<"Unknown tool: ">> \o name]
             /\ servers' = servers
             /\ children' = children
             /\ pendingStops' = pendingStops
             /\ \A d \in Callers \ {c} : callers'[d] = callers[d]
      ]_vars

\* C14, its case: the error result naming the unknown tool u has been
\* returned, and server a is running with its idle timer armed.
C14_Witness ==
    /\ hostRes.kind = "result"
    /\ hostRes.isError
    /\ hostRes.text = <<"Unknown tool: ">> \o ToolU
    /\ servers[SrvA].status = "running"
    /\ servers[SrvA].idleTimer.st = "armed"

\* what a forwarded tools/call can fail with: the start timed out, the start
\* failed, or the upstream call failed
Failures == {"timeout", "failed", "callError"}

\* C15 as stated: when a tools/call ends with a startup or upstream failure,
\* the server it was forwarded to is then in state error or stopped.
C15_FailureLeavesErrorOrStopped ==
    [][\A c \in Callers :
          callers[c].pc \in {"awaitStart", "inflight"}
          /\ callers'[c].pc = "done" /\ callers'[c].res \in Failures
          => servers'[callers[c].srv].status \in {"error", "stopped"}
      ]_vars

\* C15, amended: a failed tools/call is answered with an isError result; a
\* failed or timed-out start leaves the server in state error; and a
\* tools/call routed to a server in state error or stopped starts a fresh
\* spawn attempt, which the request awaits.  (After an upstream failure that
\* did not close the transport the server is still running.)
C15_ErrorContainedAndRetried ==
    /\ [](\A c \in Callers :
             callers[c].pc = "done" /\ callers[c].res \in Failures
             => /\ HostResult(callers[c].res).kind = "result"
                /\ HostResult(callers[c].res).isError)
    /\ [][\A s \in Servers :
            /\ \A k \in Attempts :
                  children[s][k].race = "pending"
                  /\ children'[s][k].race \in {"timeout", "over"}
                  => servers'[s].status = "error"
            /\ \A c \in Callers, name \in CallNames :
                  /\ ToolsCall(c, name)
                  /\ name \in DOMAIN toolRouting
                  /\ toolRouting[name] = s
                  /\ servers[s].status \in {"error", "stopped"}
                  => /\ servers'[s].status = "starting"
                     /\ Cardinality(Made(s)') = Cardinality(Made(s)) + 1
                     /\ callers'[c].pc = "awaitStart"
                     /\ callers'[c].att = servers'[s].startPromise
                     /\ children'[s][callers'[c].att].race = "pending"
        ]_vars

\* C15, its case: the first tools/call of server a failed by startup timeout,
\* and the second one awaits a second start of a.
C15_Witness ==
    /\ callers[1].pc = "done"
    /\ callers[1].res = "timeout"
    /\ callers[2].pc = "awaitStart"
    /\ callers[2].att = 2
    /\ servers[SrvA].status = "starting"
    /\ children[SrvA][1].race = "timeout"

\* the spawn attempts of s whose startup race is not decided yet
Pending(s) == {k \in Attempts : children[s][k].race = "pending"}

\* C16: when the transport of a child closes while its server is running, the
\* server becomes stopped with client and idle timer cleared, and it stays
\* stopped until a later getClient/callTool: the close leaves no start in
\* progress that would bring the server back by itself, and a stopped server
\* with no start in progress stays so in every step that is not a
\* getClient/callTool for it.
C16_CloseStopsAndStaysStopped ==
    [][\A s \in Servers :
          /\ \A k \in Attempts :
                /\ servers[s].status = "running"
                /\ servers[s].client = k
                /\ children[s][k].race = "won"
                /\ children[s][k].proc \in {"alive", "closing"}
                /\ children'[s][k].proc = "dead"
                => StoppedClean(s)' /\ Pending(s)' = {}
          /\ StoppedClean(s) /\ Pending(s) = {}
             => \/ StoppedClean(s)' /\ Pending(s)' = {}
                \/ \E c \in Callers, kind \in {"getClient", "callTool"} :
                      GetClient(c, s, kind)
      ]_vars

\* runningCount(), lines 169-171
RunningCount == Cardinality({s \in Servers : servers[s].status = "running"})

\* C17: once shutdownAll() has resolved, every server is stopped,
\* runningCount is 0 and no child process remains.
C17_ShutdownStopsEverything ==
    ShutdownResolved
    => /\ \A s \in Servers : servers[s].status = "stopped"
       /\ RunningCount = 0
       /\ \A s \in Servers : LiveChildren(s) = {}

\* a server no getClient has reached yet: as constructed, no child spawned
Untouched(s) == servers[s] = NewServer /\ Made(s) = {}

\* C18: a step that answers tools/list changes nothing of the child manager
\* (no child, no server state, no timer); and with preload 'none' a server
\* stays as constructed (stopped, no child) in every step, the proxy's start
\* included, other than a tools/call routed to it.
C18_LazySpawning ==
    [][/\ listed' # listed => UNCHANGED mgrVars
       /\ \A s \in Servers :
             preload = PreloadNone /\ Untouched(s)
             => \/ Untouched(s)'
                \/ \E c \in Callers, name \in CallNames :
                      /\ callers[c].pc = "idle"
                      /\ callers'[c].pc # "idle"
                      /\ callers'[c].kind = "callTool"
                      /\ name \in DOMAIN toolRouting
                      /\ toolRouting[name] = s
                      /\ callers'[c].srv = s
      ]_vars

\* C18, its case: preload is 'none', the proxy has started and has answered
\* a tools/list with the tools of the cache, a tools/call for an unknown
\* name was rejected, and server a is still as constructed.
C18_Witness ==
    /\ preload = PreloadNone
    /\ connected
    /\ listed # <<>>
    /\ \E c \in Callers : callers[c].res = "unknownTool"
    /\ Untouched(SrvA)

\* C19: in tool-search mode the answer to tools/list is exactly two tools,
\* named discover and execute, whatever the cache holds.
C19_MetaToolsAreDiscoverExecute ==
    LET discover == <<"d", "i", "s", "c", "o", "v", "e", "r">>
        execute == <<"e", "x", "e", "c", "u", "t", "e">>
    IN  mode = "tool-search" /\ listed # <<>>
        => listed = <<discover, execute>>

(***************************************************************************)
(* The search meta-tool: handleSearchTools.  An argument of the call is a  *)
(* JavaScript value: undefined (absent), a number, NaN or a string.        *)
(***************************************************************************)
MaxArg == 32
DefaultMaxResults == 10
MaxResultsCap == 30

Undefined == [t |-> "undefined"]
NaN == [t |-> "nan"]
Num(n) == [t |-> "number", n |-> n]
Str(s) == [t |-> "string", s |-> s]

DigitOf(ch) ==
    CASE ch = "0" -> 0 [] ch = "1" -> 1 [] ch = "2" -> 2 [] ch = "3" -> 3
      [] ch = "4" -> 4 [] ch = "5" -> 5 [] ch = "6" -> 6 [] ch = "7" -> 7
      [] ch = "8" -> 8 [] ch = "9" -> 9

IsDigits(q) ==
    \A i \in 1..Len(q) :
        q[i] \in {"0", "1", "2", "3", "4", "5", "6", "7", "8", "9"}

RECURSIVE DigitsValue(_)
DigitsValue(q) ==
    IF q = <<>> THEN 0
    ELSE 10 * DigitsValue(SubSeq(q, 1, Len(q) - 1)) + DigitOf(q[Len(q)])

\* A faulty variant of trim: it strips nothing.
TrimNothing(q) == q

\* String.prototype.trim
RECURSIVE Trim(_)
Trim(q) ==
    IF q = <<>> THEN q
    ELSE IF Head(q) = " " THEN Trim(Tail(q))
    ELSE IF q[Len(q)] = " " THEN Trim(SubSeq(q, 1, Len(q) - 1))
    ELSE q

\* Number(string): blank is 0, a signed run of digits is its value, else NaN
StringToNumber(q) ==
    LET w == Trim(q)
        signed == w # <<>> /\ Head(w) \in {"-", "+"}
        digits == IF signed THEN Tail(w) ELSE w
    IN  IF w = <<>> THEN Num(0)
        ELSE IF digits = <<>> \/ ~IsDigits(digits) THEN NaN
        ELSE Num(IF Head(w) = "-" THEN 0 - DigitsValue(digits)
                 ELSE DigitsValue(digits))

\* Number(v)
ToNumber(v) ==
    CASE v.t = "undefined" -> NaN
      [] v.t = "nan" -> NaN
      [] v.t = "number" -> v
      [] v.t = "string" -> StringToNumber(v.s)

\* the truth value of v in `v || d`
Truthy(v) ==
    CASE v.t = "undefined" -> FALSE
      [] v.t = "nan" -> FALSE
      [] v.t = "number" -> v.n # 0
      [] v.t = "string" -> v.s # <<>>
      [] v.t = "null" -> FALSE
      [] v.t = "object" -> TRUE

Min(a, b) == IF a <= b THEN a ELSE b

\* line 162: Math.min(Number(args.max_results) || 10, 30)
MaxResults(arg) ==
    LET n == ToNumber(arg)
    IN  Min(IF Truthy(n) THEN n.n ELSE DefaultMaxResults, MaxResultsCap)

\* line 161: String(args.query || '')
QueryText(arg) == IF Truthy(arg) THEN arg.s ELSE <<>>

\* the answers of handleSearchTools; `asked` holds the maxResults the index
\* was searched with, if it was searched
GuidanceResult ==
    [kind |-> "result", isError |-> FALSE, text |-> "Provide a search query.",
     asked |-> {}]
SearchedResult(found, maxResults) ==
    [kind |-> "result", isError |-> FALSE,
     text |-> IF found THEN "tools" ELSE "No tools found matching",
     asked |-> {maxResults}]

QueryArgs == {Undefined} \cup {Str(q) : q \in {<<>>, <<" ">>, <<"g">>, <<" ", "g">>}}
MaxResultsArgs ==
    {Undefined, NaN}
    \cup {Num(n) : n \in (0 - MaxArg)..MaxArg}
    \cup {Str(q) : q \in {<<>>, <<"x">>, <<"7">>, <<"-", "7">>, <<"4", "0">>}}

SearchRequests ==
    {[op |-> "search_tools", query |-> q, max_results |-> m] :
        q \in QueryArgs, m \in MaxResultsArgs}

\* the proxy started in tool-search mode with a cache, a search_tools call
\* arriving
SearchInit ==
    /\ MgrInit({[s \in {SrvA} |-> CfgDefault]})
    /\ \E d \in ProxyDocs :
          /\ cache = d
          /\ toolRouting = RebuildRouting(EmptyMap, d)
          /\ cacheFile = JsonFile(d)
    /\ prefixTools = FALSE
    /\ mode = "tool-search"
    /\ listed = <<>>
    /\ preload = PreloadNone
    /\ connected = TRUE
    /\ hostReq \in SearchRequests
    /\ hostRes = NoResult

\* handleSearchTools(args): the answers it can give; what the index finds
\* is not decided here
SearchToolsAnswers(args) ==
    LET query == QueryText(args.query)
        maxResults == MaxResults(args.max_results)
    IN  IF Trim(query) = <<>> THEN {GuidanceResult}
        ELSE {SearchedResult(found, maxResults) : found \in BOOLEAN}

\* a search_tools call is handled
HandleSearchTools ==
    /\ hostReq.op = "search_tools"
    /\ hostRes = NoResult
    /\ hostRes' \in SearchToolsAnswers(hostReq)
    /\ UNCHANGED <<mgrVars, cacheVars, preload, connected, hostReq>>

SearchNext == HandleSearchTools

SearchSpec == SearchInit /\ [][SearchNext]_vars

\* C20: whatever the max_results argument of the search meta-tool, the
\* number of results asked of the index is within 1..30, and it is 10 when
\* the argument is absent.
C20_MaxResultsClamped ==
    hostReq.op = "search_tools" /\ hostRes # NoResult
    => \A m \in hostRes.asked :
          /\ 1 <= m /\ m <= 30
          /\ hostReq.max_results = Undefined => m = 10

(***************************************************************************)
(* The CallTool handler in tool-search mode: search_tools, use_tool, or an *)
(* unknown meta-tool.                                                      *)
(***************************************************************************)
Null == [t |-> "null"]
EmptyObject == [t |-> "object", keys |-> {}]
SomeObject == [t |-> "object", keys |-> {"x"}]

\* `v ?? {}`
OrEmptyObject(v) == IF v.t \in {"undefined", "null"} THEN EmptyObject ELSE v

\* A faulty variant of the tool_name conversion: the name is lost.
ToolNameTextLost(arg) == <<>>

\* line 175: String(args.tool_name || '')
ToolNameText(arg) == IF Truthy(arg) THEN arg.s ELSE <<>>

\* childManager.callTool(serverName, originalName, args) as callDirectTool
\* hands it over for toolName
ForwardedCall(toolName, toolArgs) ==
    [op |-> "callTool", server |-> Forward(toolName).server,
     tool |-> Forward(toolName).tool, args |-> toolArgs]

\* a request that was answered without the child manager
Answered(res) == [IdleCaller EXCEPT !.pc = "done", !.res = res]

\* handleUseTool(args) for request c; hostReq keeps the call it forwards
HandleUseTool(c, args) ==
    LET toolName == ToolNameText(args.tool_name)
        toolArgs == OrEmptyObject(args.arguments)
    IN  IF toolName = <<>>
        THEN /\ hostRes' = ErrorResult(<<"Error: tool_name is required.">>)
             /\ callers' = [callers EXCEPT ![c] = Answered("noToolName")]
             /\ hostReq' = NoRequest
             /\ UNCHANGED <<config, servers, children, pendingStops,
                            shutdownStops, shutdownCalled, lastDone>>
        ELSE /\ CallDirectTool(c, toolName)
             /\ hostReq' = IF callers'[c].pc = "done" THEN NoRequest
                           ELSE ForwardedCall(toolName, toolArgs)

\* the tools/call handler in tool-search mode, request c
MetaCall(c, req) ==
    /\ connected
    /\ mode = "tool-search"
    /\ callers[c].pc = "idle"
    /\ \A d \in Callers : d < c => callers[d].pc # "idle"
    /\ LET args == req.arguments
       IN  IF req.name = SearchToolsName
           THEN /\ hostRes' \in SearchToolsAnswers(args)
                /\ callers' = [callers EXCEPT ![c] = Answered("searched")]
                /\ hostReq' = NoRequest
                /\ UNCHANGED <<config, servers, children, pendingStops,
                               shutdownStops, shutdownCalled, lastDone>>
           ELSE IF req.name = UseToolName
           THEN HandleUseTool(c, args)
           ELSE /\ hostRes' = ErrorResult(<<"Unknown meta-tool: ">> \o req.name)
                /\ callers' = [callers EXCEPT ![c] = Answered("unknownMeta")]
                /\ hostReq' = NoRequest
                /\ UNCHANGED <<config, servers, children, pendingStops,
                               shutdownStops, shutdownCalled, lastDone>>
    /\ UNCHANGED <<cacheVars, preload, connected>>

\* the tools/call requests of the host in tool-search mode
SearchCalls ==
    {[name |-> SearchToolsName,
      arguments |-> [query |-> q, max_results |-> Undefined]] :
        q \in {Undefined, Str(<<>>), Str(<<" ">>), Str(<<"g">>)}}
UseToolCalls ==
    {[name |-> UseToolName, arguments |-> [tool_name |-> n, arguments |-> a]] :
        n \in {Undefined, Str(<<>>)} \cup {Str(x) : x \in CallNames},
        a \in {Undefined, Null, SomeObject}}
OtherCalls ==
    {[name |-> n, arguments |-> [query |-> Str(<<"g">>), max_results |-> Undefined]] :
        n \in {ToolT, <<"d", "i", "s", "c", "o", "v", "e", "r">>}}
MetaRequests == SearchCalls \cup UseToolCalls \cup OtherCalls

\* the cache file the proxy starts with: a declares t, b declares t and u
MetaDoc ==
    [EmptyCache EXCEPT !.servers =
        <<Entry(SrvA, <<ToolT>>), Entry(SrvB, <<ToolT, ToolU>>)>>]

MetaInit ==
    /\ MgrInit({[s \in {SrvA} |-> CfgDefault]})
    /\ cache = NoCache
    /\ toolRouting = EmptyMap
    /\ cacheFile = JsonFile(MetaDoc)
    /\ prefixTools \in BOOLEAN
    /\ mode = "tool-search"
    /\ listed = <<>>
    /\ preload = PreloadNone
    /\ connected = FALSE
    /\ hostReq = NoRequest
    /\ hostRes = NoResult

MetaNext ==
    \/ Start
    \/ \E c \in Callers, req \in MetaRequests : MetaCall(c, req)
    \/ connected /\ ListTools
    \/ \E s \in Servers, k \in Attempts : HandshakeOk(s, k)
    \/ \E s \in Servers, k \in Attempts : StartupTimeout(s, k)
    \/ \E s \in Servers, k \in Attempts : HandshakeFail(s, k)
    \/ \E s \in Servers, k \in Attempts : ChildExit(s, k)
    \/ \E s \in Servers : StopFinish(s, "idle")
    \/ \E s \in Servers : IdleFire(s)
    \/ Tick
    \/ \E c \in Callers : CallReturn(c)
    \/ \E c \in Callers : CallFail(c)

MetaSpec == MetaInit /\ [][MetaNext]_vars

\* a query argument that is missing, empty or made of spaces only
BlankQuery(arg) ==
    \/ arg = Undefined
    \/ arg.t = "string" /\ \A i \in 1..Len(arg.s) : arg.s[i] = " "

\* C21: in tool-search mode a search_tools call whose query is missing, empty
\* or blank is answered with the guidance message, without isError and
\* without a search of the index; a call of any name other than the two
\* meta-tools is answered with an isError result naming it; and both leave
\* the servers and the children as they were.
C21_BlankQueryAndUnknownMetaTool ==
    [][\A c \in Callers, req \in MetaRequests :
          MetaCall(c, req)
          => /\ req.name = SearchToolsName /\ BlankQuery(req.arguments.query)
                => /\ hostRes'.kind = "result"
                   /\ ~hostRes'.isError
                   /\ hostRes'.text = "Provide a search query."
                   /\ hostRes'.asked = {}
                   /\ servers' = servers /\ children' = children
             /\ req.name \notin {SearchToolsName, UseToolName}
                => /\ hostRes' = [kind |-> "result", isError |-> TRUE,
                                  text |-> <<"Unknown meta-tool: ">> \o req.name]
                   /\ servers' = servers /\ children' = children
      ]_vars

\* C21, its case: one call of an unknown meta-tool was rejected, then a
\* search with a blank query got the guidance message, and server a is still
\* as constructed.
C21_Witness ==
    /\ mode = "tool-search"
    /\ callers[1].res = "unknownMeta"
    /\ callers[2].res = "searched"
    /\ hostRes = GuidanceResult
    /\ Untouched(SrvA)

\* C22: a use_tool call with tool_name n and arguments a does what the
\* passthrough tools/call for n does: the same lookup, the same answer for an
\* unknown tool or server, the same getClient on the same server, and
\* childManager.callTool is handed the same server, original tool name and
\* arguments (an empty object when a is absent); with tool_name missing or
\* empty the answer is an isError result and nothing is forwarded.
C22_UseToolIsPassthroughCall ==
    [][\A c \in Callers, req \in UseToolCalls :
          MetaCall(c, req)
          => LET n == req.arguments.tool_name
                 a == req.arguments.arguments
             IN  IF n = Undefined \/ n = Str(<<>>)
                 THEN /\ hostRes'.kind = "result" /\ hostRes'.isError
                      /\ callers'[c].pc = "done"
                      /\ servers' = servers /\ children' = children
                 ELSE /\ CallDirectTool(c, n.s)
                      /\ callers'[c].pc # "done"
                         => /\ hostReq'.op = "callTool"
                            /\ hostReq'.server = toolRouting[n.s]
                            /\ callers'[c].srv = toolRouting[n.s]
                            /\ hostReq'.tool =
                                  GetOriginalToolName(n.s, prefixTools)
                            /\ hostReq'.args =
                                  IF a \in {Undefined, Null}
                                  THEN [t |-> "object", keys |-> {}] ELSE a
      ]_vars

\* C22, its case: use_tool {tool_name: t} with no arguments was forwarded to
\* server a as tool t with an empty object, and the request awaits a's start.
C22_Witness ==
    /\ mode = "tool-search"
    /\ hostReq = [op |-> "callTool", server |-> SrvA, tool |-> ToolT,
                  args |-> EmptyObject]
    /\ callers[1].pc = "awaitStart"
    /\ callers[1].srv = SrvA
    /\ servers[SrvA].status = "starting"

(***************************************************************************)
(* preloadServers with several servers: hostReq holds the loop, the list   *)
(* toPreload and how many of its getClient calls were issued.              *)
(***************************************************************************)
SrvC == <<"c">>
PreloadList(l) == [kind |-> "list", list |-> l]
PreloadLoop(todo, issued) == [op |-> "preload", todo |-> todo, issued |-> issued]

\* start(), and preloadServers up to its first sleep
StartPreload ==
    LET warm == ToPreload(preload, ConfigOrder)
    IN  /\ StartUp(warm)
        /\ hostReq' = PreloadLoop(warm, IF warm = <<>> THEN 0 ELSE 1)

\* the 2 s sleep of the loop is over: getClient of the next server, not awaited
PreloadNext ==
    /\ hostReq.op = "preload"
    /\ hostReq.issued < Len(hostReq.todo)
    /\ \E c \in Callers : GetClient(c, hostReq.todo[hostReq.issued + 1], "getClient")
    /\ hostReq' = [hostReq EXCEPT !.issued = @ + 1]
    /\ UNCHANGED <<cacheVars, preload, connected, hostRes>>

PreloadSettings ==
    {PreloadNone, PreloadAll}
    \cup {PreloadList(l) : l \in {<<>>, <<SrvB>>, <<SrvB, SrvA>>, <<SrvC, SrvA>>,
                                  <<SrvA, SrvA>>}}

PreloadInit ==
    /\ MgrInit({[s \in {SrvA, SrvB} |-> CfgDefault]})
    /\ cache = NoCache
    /\ toolRouting = EmptyMap
    /\ cacheFile = JsonFile(MetaDoc)
    /\ prefixTools = FALSE
    /\ mode = "passthrough"
    /\ listed = <<>>
    /\ preload \in PreloadSettings
    /\ connected = FALSE
    /\ hostReq = NoRequest
    /\ hostRes = NoResult

PreloadSpecNext ==
    \/ StartPreload
    \/ PreloadNext
    \/ \E s \in Servers, k \in Attempts : HandshakeOk(s, k)
    \/ \E s \in Servers, k \in Attempts : StartupTimeout(s, k)
    \/ \E s \in Servers, k \in Attempts : HandshakeFail(s, k)
    \/ \E s \in Servers, k \in Attempts : ChildExit(s, k)
    \/ \E s \in Servers : StopFinish(s, "idle")
    \/ \E s \in Servers : IdleFire(s)
    \/ Tick

PreloadSpec == PreloadInit /\ [][PreloadSpecNext]_vars

\* the elements of a sequence
Range(q) == {q[i] : i \in 1..Len(q)}

\* the servers the setting selects, as the specification words it
Selected ==
    IF preload.kind = "none" THEN {}
    ELSE IF preload.kind = "all" THEN Servers
    ELSE Range(preload.list) \cap Servers

\* C23: once the host transport is connected, the servers preloadServers
\* warms are none for 'none', every configured server for 'all', and the
\* configured servers of the list for an explicit list; each getClient it has
\* issued started its server, and a server outside the selection is never
\* started.
C23_PreloadSelection ==
    connected
    => /\ hostReq.op = "preload"
       /\ Range(hostReq.todo) = Selected
       /\ \A i \in 1..hostReq.issued : Made(hostReq.todo[i]) # {}
       /\ \A s \in Servers \ Selected : Untouched(s)

\* C23, its case: with the list [c, a] and servers a and b configured, a was
\* warmed and runs, the loop is over, and b is as constructed.
C23_Witness ==
    /\ preload = PreloadList(<<SrvC, SrvA>>)
    /\ hostReq = PreloadLoop(<<SrvA>>, 1)
    /\ servers[SrvA].status = "running"
    /\ Untouched(SrvB)

\* C24: preload is sequential: the getClient of the next preload server is
\* issued only when the start of every server warmed before it has finished,
\* so that at most one server is starting at a time.
C24_PreloadSequential ==
    [][/\ hostReq.op = "preload" /\ hostReq'.issued = hostReq.issued + 1
          => \A i \in 1..hostReq.issued : Pending(hostReq.todo[i]) = {}
       /\ Cardinality({s \in Servers : Pending(s)' # {}}) <= 1
      ]_vars

(***************************************************************************)
(* save(): writeFileSync opens schemas.json truncating it, then writes     *)
(* the document.  hostReq holds where the process is: idle, inside         *)
(* writeFileSync, or killed.                                               *)
(***************************************************************************)
\* schemas.json opened with O_TRUNC and not all written yet
TruncatedFile == [kind |-> "truncated", doc |-> NoCache]
Saving == [op |-> "save"]
Killed == [op |-> "killed"]

\* save() up to the open of writeFileSync (it returns at once with no cache)
SaveOpen ==
    /\ hostReq = NoRequest
    /\ cache.loaded
    /\ cacheFile' = TruncatedFile
    /\ hostReq' = Saving
    /\ UNCHANGED <<cache, toolRouting, prefixTools, mode, listed>>
    /\ UNCHANGED <<mgrVars, preload, connected, hostRes>>

\* writeFileSync has written JSON.stringify(this.cache) and returns
SaveWrite ==
    /\ hostReq = Saving
    /\ cacheFile' = JsonFile(cache)
    /\ hostReq' = NoRequest
    /\ UNCHANGED <<cache, toolRouting, prefixTools, mode, listed>>
    /\ UNCHANGED <<mgrVars, preload, connected, hostRes>>

\* the process is killed, at any point; the file stays as it is
Kill ==
    /\ hostReq \in {NoRequest, Saving}
    /\ hostReq' = Killed
    /\ UNCHANGED <<cacheVars, mgrVars, preload, connected, hostRes>>

\* a new process: a SchemaCache as constructed, which then loads the file
Restart ==
    /\ hostReq = Killed
    /\ cache' = NoCache
    /\ toolRouting' = EmptyMap
    /\ hostReq' = NoRequest
    /\ UNCHANGED <<cacheFile, prefixTools, mode, listed>>
    /\ UNCHANGED <<mgrVars, preload, connected, hostRes>>

SaveInit ==
    /\ MgrInit({[s \in {SrvA} |-> CfgDefault]})
    /\ cache = NoCache
    /\ toolRouting = EmptyMap
    /\ cacheFile \in {NoFile} \cup {JsonFile(d) : d \in ProxyDocs}
    /\ prefixTools = FALSE
    /\ mode = "passthrough"
    /\ listed = <<>>
    /\ HostInit

SaveNext ==
    \/ hostReq = NoRequest /\ Load
    \/ \E name \in CacheServers, tools \in ToolLists :
          hostReq = NoRequest /\ UpdateServer(name, tools)
    \/ SaveOpen
    \/ SaveWrite
    \/ Kill
    \/ Restart

SaveSpec == SaveInit /\ [][SaveNext]_vars

\* C25: save() is atomic: unless the process is inside save() right now,
\* schemas.json is absent or a complete document (the previous one or the
\* new one), also after the process was killed during save(); so a later
\* load() finds no truncated document.
C25_SaveIsAtomic ==
    hostReq # Saving => cacheFile.kind \in {"absent", "json"}

\* schemas.json exists but is unusable: not JSON, or JSON without `servers`
UnusableFile == cacheFile.kind = "corrupt" \/ (cacheFile.kind = "json" /\ ~cacheFile.doc.hasServers)

\* C26: load() of an unusable cache file by a SchemaCache as constructed
\* leaves it as load() of a missing file does: no cache object and an empty
\* routing table.
C26_CorruptCacheAsMissing ==
    [][Load /\ UnusableFile /\ cache = NoCache
       => cache' = NoCache /\ toolRouting' = EmptyMap
      ]_vars

(***************************************************************************)
(* start() without a usable cache file: generateAllSchemas.  hostReq holds *)
(* the loop: the index i of the server in hand, the request c of its       *)
(* discoverTools, and whether the loop awaits discoverTools or stopServer. *)
(***************************************************************************)
Generating(i, c, phase) == [op |-> "generate", i |-> i, c |-> c, phase |-> phase]
Generated == [op |-> "generated"]

\* what the run has done so far: the servers whose discoverTools resolved,
\* and the calls of save()
Tally(discovered, saves) ==
    [kind |-> "generation", discovered |-> discovered, saves |-> saves]

\* the loop goes on after server i with the cache cch, its routing table and
\* the servers discovered so far: discoverTools of the next server up to its
\* await of getClient, or, after the last one, save(), the rest of start()
\* and the connection of the host transport (preload is 'none')
AdvanceFrom(i, cch, routing, found) ==
    /\ cache' = cch
    /\ toolRouting' = routing
    /\ IF i < Len(ConfigOrder)
       THEN /\ \E c \in Callers :
                  /\ GetClient(c, ConfigOrder[i + 1], "getClient")
                  /\ hostReq' = Generating(i + 1, c, "discover")
            /\ hostRes' = Tally(found, 0)
            /\ UNCHANGED <<cacheFile, prefixTools, mode, listed, preload, connected>>
       ELSE /\ cacheFile' = IF cch.loaded THEN JsonFile(cch) ELSE cacheFile
            /\ connected' = TRUE
            /\ hostReq' = Generated
            /\ hostRes' = Tally(found, 1)
            /\ UNCHANGED <<prefixTools, mode, listed>>
            /\ UNCHANGED <<mgrVars, preload>>

\* the loop goes on after server i, the cache being as it is
Advance(i) == AdvanceFrom(i, cache, toolRouting, hostRes.discovered)

\* start(): load() returns false (no file, no JSON, or JSON without `servers`,
\* which load() has stored as the cache by then), generateAllSchemas begins
GenBegin ==
    /\ ~connected
    /\ hostReq = NoRequest
    /\ cacheFile.kind = "json" => ~cacheFile.doc.hasServers
    /\ IF cacheFile.kind = "json"
       THEN AdvanceFrom(0, cacheFile.doc, RebuildRouting(toolRouting, cacheFile.doc), {})
       ELSE AdvanceFrom(0, cache, toolRouting, {})

\* getClient rejected (start failed or timed out): the catch block
GenStartFailed ==
    /\ hostReq.op = "generate" /\ hostReq.phase = "discover"
    /\ callers[hostReq.c].pc = "done"
    /\ callers[hostReq.c].res \in {"timeout", "failed"}
    /\ Advance(hostReq.i)

\* client.listTools() rejected: the catch block; stopServer is not reached
GenListFail ==
    /\ hostReq.op = "generate" /\ hostReq.phase = "discover"
    /\ callers[hostReq.c].pc = "done"
    /\ callers[hostReq.c].res = "client"
    /\ Advance(hostReq.i)

\* client.listTools() answered, and updateServer threw at its assignment to
\* a `servers` the cache does not have: the catch block; stopServer is not
\* reached
GenUpdateThrows ==
    /\ hostReq.op = "generate" /\ hostReq.phase = "discover"
    /\ callers[hostReq.c].pc = "done"
    /\ callers[hostReq.c].res = "client"
    /\ cache.loaded /\ ~cache.hasServers
    /\ AdvanceFrom(hostReq.i, cache, toolRouting,
                   hostRes.discovered \cup {ConfigOrder[hostReq.i]})

\* client.listTools() answered: updateServer, then stopServer up to its await
GenListOk(tools) ==
    /\ hostReq.op = "generate" /\ hostReq.phase = "discover"
    /\ callers[hostReq.c].pc = "done"
    /\ callers[hostReq.c].res = "client"
    /\ cache.loaded => cache.hasServers
    /\ LET s == ConfigOrder[hostReq.i]
           base == IF cache.loaded THEN cache ELSE EmptyCache
           new == [base EXCEPT !.servers = SetEntry(base.servers, s, tools)]
       IN  /\ cache' = new
           /\ toolRouting' = RebuildRouting(toolRouting, new)
           /\ servers' = ServersAfterStop(servers, {s})
           /\ children' = ChildrenAfterStop(servers, {s})
           /\ pendingStops' = [pendingStops EXCEPT ![s] =
                                  IF StopAwaits(servers[s]) THEN @ \cup {"explicit"}
                                  ELSE @]
           /\ hostRes' = Tally(hostRes.discovered \cup {s}, 0)
    /\ hostReq' = [hostReq EXCEPT !.phase = "stop"]
    /\ UNCHANGED <<config, callers, shutdownStops, shutdownCalled, lastDone>>
    /\ UNCHANGED <<cacheFile, prefixTools, mode, listed, preload, connected>>

\* stopServer returned: the next iteration
GenStopped ==
    /\ hostReq.op = "generate" /\ hostReq.phase = "stop"
    /\ "explicit" \notin pendingStops[ConfigOrder[hostReq.i]]
    /\ Advance(hostReq.i)

GenInit ==
    /\ MgrInit({[s \in {SrvA, SrvB} |-> CfgDefault]})
    /\ cache = NoCache
    /\ toolRouting = EmptyMap
    /\ cacheFile \in {NoFile, CorruptFile, JsonFile(BadCache)}
    /\ prefixTools = FALSE
    /\ mode = "passthrough"
    /\ listed = <<>>
    /\ HostInit

GenNext ==
    \/ GenBegin
    \/ GenStartFailed
    \/ GenListFail
    \/ GenUpdateThrows
    \/ \E tools \in ToolLists : GenListOk(tools)
    \/ GenStopped
    \/ \E s \in Servers, k \in Attempts : HandshakeOk(s, k)
    \/ \E s \in Servers, k \in Attempts : StartupTimeout(s, k)
    \/ \E s \in Servers, k \in Attempts : HandshakeFail(s, k)
    \/ \E s \in Servers, k \in Attempts : ChildExit(s, k)
    \/ \E s \in Servers : StopFinish(s, "explicit")

GenSpec == GenInit /\ [][GenNext]_vars

\* C27: generateAllSchemas spawns each configured server once at most, and
\* when it has finished no configured server is running and no child it
\* spawned is alive without having been closed.
C27_GenerationLeavesNothingRunning ==
    /\ \A s \in Servers : Cardinality(Made(s)) <= 1
    /\ hostReq = Generated
       => \A s \in Servers :
             /\ servers[s].status # "running"
             /\ \A k \in Attempts : children[s][k].proc # "alive"

(***************************************************************************)
(* main(): the flags, loadConfig, the logger.  hostReq holds the command   *)
(* line and the config file the process finds; hostRes holds the process:  *)
(* where main is, the logger's currentLevel, the exit code, and whether a  *)
(* config file was written.                                                *)
(***************************************************************************)
LogLevels == {"debug", "info", "warn", "error", "silent"}

\* LEVELS of the logger
LEVELS(level) ==
    CASE level = "debug" -> 0 [] level = "info" -> 1 [] level = "warn" -> 2
      [] level = "error" -> 3 [] level = "silent" -> 4

\* write(level, ...): whether the message is written
Written(level, currentLevel) == ~(LEVELS(level) < currentLevel)

NoConfigFile == [exists |-> FALSE, logLevel |-> "unset", hasServers |-> FALSE]
ConfigFiles ==
    {NoConfigFile}
    \cup {[exists |-> TRUE, logLevel |-> l, hasServers |-> b] :
             l \in LogLevels \cup {"unset"}, b \in BOOLEAN}

MainRequests ==
    {[op |-> "main", logLevelFlag |-> f, configFile |-> cf] :
        f \in LogLevels \cup {"absent"}, cf \in ConfigFiles}

\* the process at the entry of main(): currentLevel is LEVELS.info
Process(pc, level, code, created) ==
    [kind |-> "process", pc |-> pc, currentLevel |-> level, exitCode |-> code,
     configCreated |-> created]

MainInit ==
    /\ MgrInit({[s \in {SrvA} |-> CfgDefault]})
    /\ cache = NoCache
    /\ toolRouting = EmptyMap
    /\ cacheFile = NoFile
    /\ prefixTools = FALSE
    /\ mode = "passthrough"
    /\ listed = <<>>
    /\ preload = PreloadNone
    /\ connected = FALSE
    /\ hostReq \in MainRequests
    /\ hostRes = Process("flags", LEVELS("info"), 0, FALSE)

\* lines 23-27: --log-level
ParseFlags ==
    /\ hostRes.pc = "flags"
    /\ hostRes' = [hostRes EXCEPT
                      !.pc = "load",
                      !.currentLevel = IF hostReq.logLevelFlag = "absent" THEN @
                                       ELSE LEVELS(hostReq.logLevelFlag)]
    /\ UNCHANGED <<mgrVars, cacheVars, preload, connected, hostReq>>

\* settings.logLevel of { ...DEFAULT_SETTINGS, ...raw.settings }
SettingsLogLevel(cf) == IF cf.logLevel = "unset" THEN "info" ELSE cf.logLevel

\* lines 29-31 and 50-53: loadConfig throws for a missing file or a config
\* without servers, and main logs and exits with code 1; otherwise
\* setLogLevel(config.settings.logLevel) and the proxy is constructed
LoadConfig ==
    /\ hostRes.pc = "load"
    /\ LET cf == hostReq.configFile
       IN  hostRes' = IF ~cf.exists \/ ~cf.hasServers
                      THEN [hostRes EXCEPT !.pc = "exited", !.exitCode = 1]
                      ELSE [hostRes EXCEPT
                               !.pc = "started",
                               !.currentLevel = LEVELS(SettingsLogLevel(cf))]
    /\ UNCHANGED <<mgrVars, cacheVars, preload, connected, hostReq>>

MainNext == ParseFlags \/ LoadConfig

MainSpec == MainInit /\ [][MainNext]_vars

\* C28: when the proxy starts and the config file does not exist, a
\* defaulted config file is created and the proxy goes on: main does not
\* exit.
C28_MissingConfigIsNotFatal ==
    ~hostReq.configFile.exists /\ hostRes.pc \notin {"flags", "load"}
    => /\ hostRes.pc = "started"
       /\ hostRes.configCreated

\* C29: after startup with --log-level L the logger's level is L: a message
\* is written exactly when its level is at least L.
C29_LogLevelFlagIsEffective ==
    hostRes.pc = "started" /\ hostReq.logLevelFlag # "absent"
    => /\ hostRes.currentLevel = LEVELS(hostReq.logLevelFlag)
       /\ \A m \in LogLevels :
             Written(m, hostRes.currentLevel)
             <=> LEVELS(m) >= LEVELS(hostReq.logLevelFlag)

\* C30: every change of a server's status is one of stopped -> starting,
\* starting -> running, starting -> error, running -> stopped and
\* error -> starting, the changes to starting being made by a
\* getClient/callTool for the server; so a server becomes running only from
\* starting, and a stopped server stays stopped until the next getClient.
C30_LifecycleTransitions ==
    [][\A s \in Servers :
          servers'[s].status # servers[s].status
          => /\ <<servers[s].status, servers'[s].status>>
                   \in {<<"stopped", "starting">>, <<"starting", "running">>,
                        <<"starting", "error">>, <<"running", "stopped">>,
                        <<"error", "starting">>}
             /\ servers'[s].status = "starting"
                => \E c \in Callers, kind \in {"getClient", "callTool"} :
                      GetClient(c, s, kind)
      ]_vars

(***************************************************************************)
(* callTool and the idle timer.                                            *)
(***************************************************************************)
\* the idle timers of a server that are pending
PendingTimers(srv) ==
    (IF srv.idleTimer.st = "armed" THEN 1 ELSE 0) + srv.uncancelled

\* C31: whenever a callTool on a non-persistent server gets its client and
\* sends the call, the server's idle timer is left armed with the full
\* duration config.idleTimeout if that is set and the global idleTimeout
\* otherwise, and no server ever has more than one idle timer pending.
C31_CallToolRearmsIdleTimer ==
    [][/\ \A c \in Callers :
             /\ callers[c].pc # "inflight"
             /\ callers'[c].pc = "inflight"
             /\ ~config[callers'[c].srv].persistent
             => servers'[callers'[c].srv].idleTimer =
                   [st |-> "armed",
                    left |-> IF config[callers'[c].srv].hasIdle
                             THEN config[callers'[c].srv].idleTimeout
                             ELSE IdleTicks]
       /\ \A s \in Servers : PendingTimers(servers'[s]) <= 1
      ]_vars

\* a second callTool has re-armed the timer of a server with an idleTimeout
\* of its own, after the first one's answer
C31_Witness ==
    /\ callers[1].pc = "done" /\ callers[1].res = "ok"
    /\ callers[2].pc = "inflight"
    /\ config[callers[2].srv].hasIdle
    /\ servers[callers[2].srv].idleTimer = ArmedTimer(ShortIdleTicks)
    /\ lastDone[callers[2].srv].age > 0

(***************************************************************************)
(* updateServer's effect on the cache.                                     *)
(***************************************************************************)
\* the server names of a cache's entries, in their order
EntryNames(cch) == [j \in 1..Len(cch.servers) |-> cch.servers[j].serverName]

\* C32: updateServer(name, tools) leaves exactly one entry for the server,
\* holding the given tools; every other server's entry is as it was and no
\* other entry appears; the servers present before are in the order they had;
\* and the routing table is the one rebuilt from an empty table from the new
\* cache.
C32_UpdateServerReplacesOneEntry ==
    [][\A name \in CacheServers, tools \in ToolLists :
          UpdateServer(name, tools)
          => /\ cache'.loaded /\ cache'.hasServers
             /\ Cardinality({j \in 1..Len(cache'.servers) :
                                cache'.servers[j].serverName = name}) = 1
             /\ \A j \in 1..Len(cache'.servers) :
                   IF cache'.servers[j].serverName = name
                   THEN cache'.servers[j].tools = tools
                   ELSE \E i \in 1..Len(cache.servers) :
                           cache.servers[i] = cache'.servers[j]
             /\ \A i \in 1..Len(cache.servers) :
                   \E j \in 1..Len(cache'.servers) :
                      cache'.servers[j].serverName = cache.servers[i].serverName
             /\ SelectSeq(EntryNames(cache'),
                          LAMBDA n : \E i \in 1..Len(cache.servers) :
                                        cache.servers[i].serverName = n)
                   = EntryNames(cache)
             /\ toolRouting' = RebuildRouting(EmptyMap, cache')
      ]_vars

\* the entry of the first of two cached servers has been replaced by other
\* tools, and the name both declared is now routed to the second
C32_Witness ==
    /\ cache.loaded
    /\ Len(cache.servers) = 2
    /\ cache.servers[1] = Entry(SrvB, <<>>)
    /\ cache.servers[2] = Entry(SrvA, <<ToolT>>)
    /\ cacheFile.kind = "json"
    /\ cacheFile.doc.servers = <<Entry(SrvB, <<ToolT, ToolU>>), Entry(SrvA, <<ToolT>>)>>
    /\ toolRouting = MapSet(EmptyMap, ToolT, SrvA)

(***************************************************************************)
(* generateAllSchemas and failures.                                        *)
(***************************************************************************)
\* C33: generateAllSchemas takes the configured servers in their order
\* whatever fails, and when it has finished every server was attempted, the
\* cache has an entry for exactly the servers whose discoverTools resolved,
\* save() was called once, and the cache file holds that cache if any
\* discovery succeeded.
C33_GenerationIsolatesFailures ==
    /\ hostReq.op = "generate"
       => \A j \in 1..Len(ConfigOrder) :
             j <= hostReq.i <=> Made(ConfigOrder[j]) # {}
    /\ hostReq = Generated
       => /\ \A s \in Servers : Made(s) # {}
          /\ {cache.servers[j].serverName : j \in 1..Len(cache.servers)}
                = hostRes.discovered
          /\ hostRes.saves = 1
          /\ hostRes.discovered # {} => cacheFile = JsonFile(cache)

(***************************************************************************)
(* Children and the records of their servers.                              *)
(***************************************************************************)
\* C34: a child process that is alive, and that nobody has asked to close,
\* belongs to a server that is starting or running and is the child that the
\* server's record refers to (its client when running, its start in flight
\* when starting); so a stopped or failed server has no live child.
C34_NoOrphanedChildren ==
    \A s \in Servers, k \in Attempts :
       children[s][k].proc = "alive"
       => \/ servers[s].status = "running" /\ servers[s].client = k
          \/ servers[s].status = "starting" /\ servers[s].startPromise = k

\* C35: getClient hands out a server's client only while no stopServer of
\* the server is suspended in client.close(), and a stopServer that resumes
\* from client.close() while a newer start of the server is in flight leaves
\* the server's record as it is.
C35_NoClientBeingClosed ==
    [][/\ \A c \in Callers, s \in Servers, kind \in {"getClient", "callTool"} :
             GetClient(c, s, kind) /\ IsReady(servers[s])
             => /\ pendingStops[s] = {}
                /\ s \notin shutdownStops
                /\ children[s][servers[s].client].proc # "closing"
       /\ \A s \in Servers, who \in {"explicit", "idle"} :
             /\ StopFinish(s, who) \/ ShutdownStopFinish(s)
             /\ servers[s].status = "starting"
             => servers'[s] = servers[s]
      ]_vars

\* C36: a server whose idleTimer is not null is running; no idle timer is
\* armed on a stopped, starting or failed server.
C36_IdleTimerOnlyWhenRunning ==
    \A s \in Servers :
       servers[s].idleTimer # NoTimer => servers[s].status = "running"

(***************************************************************************)
(* The proxy under fair scheduling: the startup timer of a Promise.race    *)
(* that is still pending fires, and the upstream settles a call it was     *)
(* sent (an answer, an error, a closed connection or the request timeout). *)
(***************************************************************************)
ProxyFair ==
    /\ \A s \in AllServers, k \in Attempts :
          WF_vars(s \in Servers /\ StartupTimeout(s, k))
    /\ \A c \in Callers : WF_vars(CallReturn(c) \/ CallFail(c))

ProxyLiveSpec == ProxyInit /\ [][ProxyNext]_vars /\ ProxyFair

\* C37: under fair timers and an upstream that settles the calls it is sent,
\* every tools/call that awaits a start or an upstream answer gets its
\* response, and stays answered with the upstream result or an error; and a
\* server that is starting does not stay so forever.
C37_EveryCallIsAnswered ==
    /\ \A c \in Callers :
          (callers[c].pc \in {"awaitStart", "inflight"} /\ callers[c].kind = "callTool")
             ~> [](/\ callers[c].pc = "done"
                   /\ callers[c].res \in {"ok", "callError", "timeout", "failed"})
    /\ \A s \in AllServers :
          (s \in Servers /\ servers[s].status = "starting")
             ~> (s \in Servers /\ servers[s].status \in {"running", "error"})

\* one tools/call was answered with the startup timeout's error, a later one
\* with the upstream's result
C37_Witness ==
    /\ connected
    /\ callers[1].pc = "done" /\ callers[1].res = "timeout"
    /\ callers[2].pc = "done" /\ callers[2].res = "ok"

(***************************************************************************)
(* The dashboard's API handlers that modify the config file.  hostRes      *)
(* holds the config file (its `servers` object: per server the command and *)
(* the env value); hostReq holds the requests being handled: where each    *)
(* handler is, what it was asked, the config object it read, and the       *)
(* status it answered with.  A handler runs until it awaits the request    *)
(* body; other handlers run in between.                                    *)
(***************************************************************************)
ConfigFile(entries) == [kind |-> "configFile", servers |-> entries]
ServerEntry(command, env) == [command |-> command, env |-> env]

\* a request that has not arrived
NoApiRequest ==
    [pc |-> "idle", kind |-> "none", name |-> SrvA, config |-> <<>>, status |-> 0]

\* the requests being handled
Dashboard(reqs) == [op |-> "dashboard", reqs |-> reqs]

\* readConfig(): the config file exists
ReadConfig == hostRes.servers

\* saveConfig(config), with the other requests as they are
SaveConfig(entries, reqs) ==
    /\ hostRes' = ConfigFile(entries)
    /\ hostReq' = Dashboard(reqs)
    /\ UNCHANGED <<mgrVars, cacheVars, preload, connected>>

\* delete config.servers[name]
Without(entries, name) == [n \in DOMAIN entries \ {name} |-> entries[n]]

\* json(res, ..., status) of request r
Respond(r, kind, name, status) ==
    [hostReq.reqs EXCEPT ![r] =
        [pc |-> "done", kind |-> kind, name |-> name, config |-> <<>>,
         status |-> status]]

\* a handler that answers 404 without writing
NotFound(r, kind, name) ==
    /\ hostReq' = Dashboard(Respond(r, kind, name, 404))
    /\ UNCHANGED <<mgrVars, cacheVars, preload, connected, hostRes>>

\* PUT /api/servers/:name and PUT /api/servers/:name/env/:key up to
\* `await parseBody(req)`: readConfig and the 404 test
PutBegin(r, kind, name) ==
    /\ hostReq.reqs[r].pc = "idle"
    /\ IF name \notin DOMAIN ReadConfig
       THEN NotFound(r, kind, name)
       ELSE /\ hostReq' = Dashboard([hostReq.reqs EXCEPT ![r] =
                             [pc |-> "body", kind |-> kind, name |-> name,
                              config |-> ReadConfig, status |-> 0]])
            /\ UNCHANGED <<mgrVars, cacheVars, preload, connected, hostRes>>

\* PUT /api/servers/:name once the body has arrived: the command is set in
\* the config object read before, which is saved
PutServerFinish(r, command) ==
    /\ hostReq.reqs[r].pc = "body"
    /\ hostReq.reqs[r].kind = "put"
    /\ LET q == hostReq.reqs[r]
       IN  SaveConfig([q.config EXCEPT ![q.name].command = command],
                      Respond(r, q.kind, q.name, 200))

\* PUT /api/servers/:name/env/:key once the body has arrived
PutEnvFinish(r, value) ==
    /\ hostReq.reqs[r].pc = "body"
    /\ hostReq.reqs[r].kind = "env"
    /\ LET q == hostReq.reqs[r]
       IN  SaveConfig([q.config EXCEPT ![q.name].env = value],
                      Respond(r, q.kind, q.name, 200))

\* DELETE /api/servers/:name: it awaits nothing
DeleteServer(r, name) ==
    /\ hostReq.reqs[r].pc = "idle"
    /\ IF name \notin DOMAIN ReadConfig
       THEN NotFound(r, "delete", name)
       ELSE SaveConfig(Without(ReadConfig, name), Respond(r, "delete", name, 200))

DashInit ==
    /\ MgrInit({[s \in {SrvA} |-> CfgDefault]})
    /\ cache = NoCache
    /\ toolRouting = EmptyMap
    /\ cacheFile = NoFile
    /\ prefixTools = FALSE
    /\ mode = "passthrough"
    /\ listed = <<>>
    /\ preload = PreloadNone
    /\ connected = FALSE
    /\ hostReq = Dashboard([r \in Callers |-> NoApiRequest])
    /\ hostRes = ConfigFile([n \in AllServers |-> ServerEntry("old", "old")])

DashNext ==
    \/ \E r \in Callers, kind \in {"put", "env"}, name \in AllServers :
          PutBegin(r, kind, name)
    \/ \E r \in Callers : PutServerFinish(r, "new")
    \/ \E r \in Callers : PutEnvFinish(r, "new")
    \/ \E r \in Callers, name \in AllServers : DeleteServer(r, name)

DashSpec == DashInit /\ [][DashNext]_vars

\* the modification of request r is in the config file
Reflected(r) ==
    LET q == hostReq.reqs[r]
    IN  IF q.kind = "delete" THEN q.name \notin DOMAIN hostRes.servers
        ELSE /\ q.name \in DOMAIN hostRes.servers
             /\ IF q.kind = "put" THEN hostRes.servers[q.name].command = "new"
                ELSE hostRes.servers[q.name].env = "new"

\* C38: once the requests handled concurrently have all been answered, the
\* config file reflects every modification that was accepted and that no
\* other request was to undo or overwrite (the other requests concern other
\* servers, or another field of the same server).
C38_NoLostConfigUpdate ==
    (\A r \in Callers : hostReq.reqs[r].pc = "done")
    => \A r \in Callers :
          /\ hostReq.reqs[r].status = 200
          /\ \A o \in Callers \ {r} :
                \/ hostReq.reqs[o].name # hostReq.reqs[r].name
                \/ /\ "delete" \notin {hostReq.reqs[o].kind, hostReq.reqs[r].kind}
                   /\ hostReq.reqs[o].kind # hostReq.reqs[r].kind
          => Reflected(r)

====
